---------------------------- MODULE Spec2Model ----------------------------
(***************************************************************************)
(* vim-deepl: the MW audio worker, the translation cache repository and    *)
(* the spaced-repetition trainer, modelled as state machines.              *)
(*                                                                         *)
(* Three subsystems share no state, so each has its own specification:     *)
(*   SpecAudio   - services/mw_audio_service.py (worker + play requests)   *)
(*   SpecCache   - repos/translation_repo.py (entries, entries_ctx,        *)
(*                 entry_translations)                                     *)
(*   SpecTrainer - services/trainer_service.py + repos/trainer_repo.py     *)
(***************************************************************************)
EXTENDS Integers, Sequences, FiniteSets, TLC

VARIABLES
    \* ---- audio worker (mw_audio_service.py module globals + worker locals)
    PLAY_TOKEN,      \* _PLAY_TOKEN
    PENDING_REQ,     \* _PENDING_REQ: NoReq or [token, file]
    CURRENT_PROC,    \* _CURRENT_PROC: None (0) or index into procs
    workerStarted,   \* _WORKER_THREAD is alive
    wpc,             \* worker's position in _audio_worker_loop
    wtoken,          \* worker local: token
    wfile,           \* worker local: file_path
    wp,              \* worker local: p
    wi,              \* worker local: i of "for i in range(2)"
    gapOpen,         \* worker in the gap: time.time() < end_at
    procs,           \* every child process spawned so far
    playerAvail,     \* environment: a media player binary can be executed
    superseded,      \* tokens of requests overwritten while still pending
    spawnFailed,     \* tokens whose Popen raised
    requested,       \* requested[t]: the file of the request that got token t
    lastResult,      \* return value of the last play_audio_twice_in_background
    \* ---- translation cache (SQLite tables written by TranslationRepo)
    entries,             \* table entries
    entries_ctx,         \* table entries_ctx
    entry_translations,  \* table entry_translations (translation variants)
    nextEntryId,         \* AUTOINCREMENT of entries.id
    nextCtxId,           \* AUTOINCREMENT of entries_ctx.id
    cnow,                \* wall clock read by the callers to build now_s
    cacheOps,            \* number of repository calls made so far
    lastCacheOp,         \* the repository call that produced this state
    \* ---- trainer (tables training_cards, training_reviews)
    cards,               \* table training_cards
    reviews,             \* table training_reviews, in insertion order
    nextCardId,          \* AUTOINCREMENT of training_cards.id
    tnow,                \* wall clock, [d |-> days since the epoch, s |-> second of the day]
    trainerOps,          \* number of trainer calls completed so far
    lastReview,          \* the last review_training_card call and the state it found
    lastPick,            \* outcome of the last pick_training_word call
    lastProgress,        \* outcome of the last get_progress call
    pickTx,              \* a pick_training_word transaction that is still open
    \* ---- translate_word requests, MW definitions and audio prefetch
    tw,                  \* tw[c]: position and locals of caller c's translate_word
    twCalls,             \* number of translate_word calls started so far
    lastTranslate,       \* what the translate_word call that just returned returned
    twStored,            \* requests [word, target, h] a completed call has stored
    mw_definitions,      \* table mw_definitions
    PREFETCH_INFLIGHT,   \* _PREFETCH_INFLIGHT
    audioFiles,          \* the cache directory: <audio_id>.mp3 and .<audio_id>.mp3.tmp
    dl,                  \* the threads running ensure_mw_audio_cached
    \* ---- bookmarks (table book_marks, the book files on disk)
    book_marks,          \* table book_marks
    bookFiles,           \* bookFiles[p]: content hash of the file at path p, or NoFile
    nextMarkId,          \* AUTOINCREMENT of book_marks.id
    bookOps,             \* number of bookmark operations made so far
    lastMarks            \* the bookmark request that produced this state

audioVars == <<PLAY_TOKEN, PENDING_REQ, CURRENT_PROC, workerStarted, wpc, wtoken,
               wfile, wp, wi, gapOpen, procs, playerAvail, superseded, spawnFailed,
               requested, lastResult>>

cacheVars == <<entries, entries_ctx, entry_translations, nextEntryId, nextCtxId,
               cnow, cacheOps, lastCacheOp>>

\* the cache tables the trainer does not write
cacheOnlyVars == <<entries_ctx, entry_translations, nextEntryId, nextCtxId,
                   cnow, cacheOps, lastCacheOp>>

trainerVars == <<cards, reviews, nextCardId, tnow, trainerOps, lastReview>>

\* what the trainer's read operations returned
pickVars == <<lastPick, lastProgress, pickTx>>

translateVars == <<tw, twCalls, lastTranslate, twStored, mw_definitions, PREFETCH_INFLIGHT,
                   audioFiles, dl>>

bookVars == <<book_marks, bookFiles, nextMarkId, bookOps, lastMarks>>

vars == <<audioVars, cacheVars, trainerVars, pickVars, translateVars, bookVars>>

None == 0

\* _PENDING_REQ is None
NoReq == [token |-> 0, file |-> "none"]

(***************************************************************************)
(* Bounds                                                                  *)
(***************************************************************************)
MaxToken == 2

\* bookmark requests and file moves explored by SpecBooks
MaxBookOps == 4

\* repository calls explored by SpecCache / SpecCtx
MaxCacheOps == 2

MaxCtxOps == 4

\* trainer calls explored by SpecTrainer
MaxTrainerOps == 3

\* reviews are explored while interval_days * ef stays a 32-bit value
IntervalCap == 400000000

Files == {"a.mp3", "b.mp3"}

(***************************************************************************)
(*                        AUDIO WORKER                                     *)
(***************************************************************************)

AliveProcs == {k \in 1..Len(procs) : procs[k].alive}

StopProcLeaveRunning(ps, p, why) == ps

\* _stop_proc(p): nothing for None or an exited process; otherwise SIGTERM the
\* process group, wait 0.5 s, SIGKILL.  `why` records the call site.
StopProc(ps, p, why) ==
    IF p = None THEN ps
    ELSE IF ~ps[p].alive THEN ps
    ELSE [ps EXCEPT ![p].alive = FALSE, ![p].end = why]

PublishKeepOldest(pending, token, file) ==
    IF pending # NoReq THEN pending ELSE [token |-> token, file |-> file]

\* _PENDING_REQ = (token, file_path, delay_sec): the single slot is overwritten
Publish(pending, token, file) == [token |-> token, file |-> file]

\* play_audio_twice_in_background, pick_player() returned None
PlayNoPlayer ==
    /\ ~playerAvail
    /\ lastResult' = "no player found"
    /\ UNCHANGED <<PLAY_TOKEN, PENDING_REQ, CURRENT_PROC, workerStarted, wpc, wtoken,
                   wfile, wp, wi, gapOpen, procs, playerAvail, superseded, spawnFailed, requested>>

\* play_audio_twice_in_background, the "with _AUDIO_COND" block
PlayQueued(f) ==
    /\ playerAvail
    /\ PLAY_TOKEN < MaxToken
    /\ PLAY_TOKEN' = PLAY_TOKEN + 1
    /\ workerStarted' = TRUE
    /\ PENDING_REQ' = Publish(PENDING_REQ, PLAY_TOKEN + 1, f)
    /\ superseded' = IF PENDING_REQ # NoReq
                     THEN superseded \cup {PENDING_REQ.token}
                     ELSE superseded
    /\ requested' = Append(requested, f)
    /\ lastResult' = "queued"
    /\ UNCHANGED <<CURRENT_PROC, wpc, wtoken, wfile, wp, wi, gapOpen, procs, playerAvail,
                   spawnFailed>>

\* lines 248-258: wait for a request, take it, take over _CURRENT_PROC
WorkerConsume ==
    /\ workerStarted
    /\ wpc = "wait_req"
    /\ PENDING_REQ # NoReq
    /\ wtoken' = PENDING_REQ.token
    /\ wfile' = PENDING_REQ.file
    /\ PENDING_REQ' = NoReq
    /\ wp' = CURRENT_PROC
    /\ CURRENT_PROC' = None
    /\ wpc' = "stop_prev"
    /\ UNCHANGED <<PLAY_TOKEN, workerStarted, wi, gapOpen, procs, playerAvail, superseded,
                   spawnFailed, lastResult, requested>>

\* line 260: _stop_proc(p), then the for loop starts with i = 0
WorkerStopPrev ==
    /\ wpc = "stop_prev"
    /\ procs' = StopProc(procs, wp, "cancel")
    /\ wi' = 0
    /\ wpc' = "check_before"
    /\ UNCHANGED <<PLAY_TOKEN, PENDING_REQ, CURRENT_PROC, workerStarted, wtoken,
                   wfile, wp, playerAvail, superseded, spawnFailed, lastResult, requested>>
    /\ UNCHANGED gapOpen

\* lines 264-266: token check before spawning
WorkerCheckBefore ==
    /\ wpc = "check_before"
    /\ wpc' = IF wtoken # PLAY_TOKEN THEN "final" ELSE "spawn"
    /\ UNCHANGED <<PLAY_TOKEN, PENDING_REQ, CURRENT_PROC, workerStarted, wtoken,
                   wfile, wp, wi, gapOpen, procs, playerAvail, superseded, spawnFailed,
                   lastResult, requested>>

\* lines 268-276: subprocess.Popen(player + [file]) succeeds
WorkerSpawn ==
    /\ wpc = "spawn"
    /\ playerAvail
    /\ procs' = Append(procs, [token |-> wtoken, file |-> wfile, alive |-> TRUE,
                               end |-> "none"])
    /\ wp' = Len(procs) + 1
    /\ wpc' = "check_after_spawn"
    /\ UNCHANGED <<PLAY_TOKEN, PENDING_REQ, CURRENT_PROC, workerStarted, wtoken,
                   wfile, wi, gapOpen, playerAvail, superseded, spawnFailed, lastResult, requested>>

\* lines 277-279: Popen raised; break out of the for loop
WorkerSpawnFail ==
    /\ wpc = "spawn"
    /\ ~playerAvail
    /\ spawnFailed' = spawnFailed \cup {wtoken}
    /\ wpc' = "final"
    /\ UNCHANGED <<PLAY_TOKEN, PENDING_REQ, CURRENT_PROC, workerStarted, wtoken,
                   wfile, wp, wi, gapOpen, procs, playerAvail, superseded, lastResult, requested>>

WorkerCheckAfterSpawnKeep ==
    /\ wpc = "check_after_spawn"
    /\ CURRENT_PROC' = wp
    /\ wpc' = "wait_proc"
    /\ UNCHANGED procs
    /\ UNCHANGED <<PLAY_TOKEN, PENDING_REQ, workerStarted, wtoken, wfile, wp, wi, gapOpen,
                   playerAvail, superseded, spawnFailed, lastResult, requested>>

\* lines 281-285: token check after spawning
WorkerCheckAfterSpawn ==
    /\ wpc = "check_after_spawn"
    /\ IF wtoken # PLAY_TOKEN
       THEN /\ procs' = StopProc(procs, wp, "cancel")
            /\ wpc' = "final"
            /\ UNCHANGED CURRENT_PROC
       ELSE /\ CURRENT_PROC' = wp
            /\ wpc' = "wait_proc"
            /\ UNCHANGED procs
    /\ UNCHANGED <<PLAY_TOKEN, PENDING_REQ, workerStarted, wtoken, wfile, wp, wi, gapOpen,
                   playerAvail, superseded, spawnFailed, lastResult, requested>>

\* lines 294-295: p.wait(timeout=10.0) returns, the player has exited
WorkerWaitDone ==
    /\ wpc = "wait_proc"
    /\ ~procs[wp].alive
    /\ wpc' = "check_after_play"
    /\ UNCHANGED <<PLAY_TOKEN, PENDING_REQ, CURRENT_PROC, workerStarted, wtoken,
                   wfile, wp, wi, gapOpen, procs, playerAvail, superseded, spawnFailed,
                   lastResult, requested>>

\* lines 296-297: p.wait(timeout=10.0) timed out; _stop_proc(p)
WorkerWaitTimeout ==
    /\ wpc = "wait_proc"
    /\ procs[wp].alive
    /\ procs' = StopProc(procs, wp, "timeout")
    /\ wpc' = "check_after_play"
    /\ UNCHANGED <<PLAY_TOKEN, PENDING_REQ, CURRENT_PROC, workerStarted, wtoken,
                   wfile, wp, wi, gapOpen, playerAvail, superseded, spawnFailed, lastResult, requested>>

\* lines 307-312 and the end of the for loop; after the first playback
\* end_at = time.time() + delay_sec
WorkerCheckAfterPlay ==
    /\ wpc = "check_after_play"
    /\ wpc' = IF wtoken # PLAY_TOKEN THEN "final"
              ELSE IF wi = 0 THEN "gap" ELSE "final"
    /\ gapOpen' = IF wtoken = PLAY_TOKEN /\ wi = 0 THEN TRUE ELSE gapOpen
    /\ UNCHANGED <<PLAY_TOKEN, PENDING_REQ, CURRENT_PROC, workerStarted, wtoken,
                   wfile, wp, wi, procs, playerAvail, superseded, spawnFailed,
                   lastResult, requested>>

\* lines 313-317: one turn of the polled gap, time.sleep(0.05), after which
\* end_at has been reached or not
WorkerGapSleep ==
    /\ wpc = "gap"
    /\ gapOpen
    /\ wtoken = PLAY_TOKEN
    /\ gapOpen' \in BOOLEAN
    /\ UNCHANGED <<PLAY_TOKEN, PENDING_REQ, CURRENT_PROC, workerStarted, wpc, wtoken,
                   wfile, wp, wi, procs, playerAvail, superseded, spawnFailed,
                   lastResult, requested>>

\* lines 313-317: the polled gap saw a newer token; the inner break leaves the
\* while loop only, so the for loop goes on with i = 1
WorkerGapCancelled ==
    /\ wpc = "gap"
    /\ gapOpen
    /\ wtoken # PLAY_TOKEN
    /\ wi' = 1
    /\ wpc' = "check_before"
    /\ UNCHANGED <<PLAY_TOKEN, PENDING_REQ, CURRENT_PROC, workerStarted, wtoken,
                   wfile, wp, gapOpen, procs, playerAvail, superseded, spawnFailed,
                   lastResult, requested>>

WorkerGapElapsedEarly ==
    /\ wpc = "gap"
    /\ wi' = 1
    /\ wpc' = "check_before"
    /\ UNCHANGED <<PLAY_TOKEN, PENDING_REQ, CURRENT_PROC, workerStarted, wtoken,
                   wfile, wp, gapOpen, procs, playerAvail, superseded, spawnFailed,
                   lastResult, requested>>

\* lines 312-317: the gap elapsed (time.time() >= end_at)
WorkerGapElapsed ==
    /\ wpc = "gap"
    /\ ~gapOpen
    /\ wi' = 1
    /\ wpc' = "check_before"
    /\ UNCHANGED <<PLAY_TOKEN, PENDING_REQ, CURRENT_PROC, workerStarted, wtoken,
                   wfile, wp, gapOpen, procs, playerAvail, superseded, spawnFailed,
                   lastResult, requested>>

\* lines 319-321, then back to the top of "while True"
WorkerFinal ==
    /\ wpc = "final"
    /\ CURRENT_PROC' = IF wtoken = PLAY_TOKEN THEN None ELSE CURRENT_PROC
    /\ wpc' = "wait_req"
    /\ UNCHANGED <<PLAY_TOKEN, PENDING_REQ, workerStarted, wtoken, wfile, wp, wi, gapOpen,
                   procs, playerAvail, superseded, spawnFailed, lastResult, requested>>

\* environment: a player process finishes playing and exits on its own
ProcExit(k) ==
    /\ k \in 1..Len(procs)
    /\ procs[k].alive
    /\ procs' = [procs EXCEPT ![k].alive = FALSE, ![k].end = "exit"]
    /\ UNCHANGED <<PLAY_TOKEN, PENDING_REQ, CURRENT_PROC, workerStarted, wpc,
                   wtoken, wfile, wp, wi, gapOpen, playerAvail, superseded, spawnFailed,
                   lastResult, requested>>

\* environment: the player binary appears / disappears (pick_player, Popen)
EnvPlayer ==
    /\ playerAvail' = ~playerAvail
    /\ UNCHANGED <<PLAY_TOKEN, PENDING_REQ, CURRENT_PROC, workerStarted, wpc,
                   wtoken, wfile, wp, wi, gapOpen, procs, superseded, spawnFailed,
                   lastResult, requested>>

WorkerStep ==
    \/ WorkerConsume
    \/ WorkerStopPrev
    \/ WorkerCheckBefore
    \/ WorkerSpawn
    \/ WorkerSpawnFail
    \/ WorkerCheckAfterSpawn
    \/ WorkerWaitDone
    \/ WorkerWaitTimeout
    \/ WorkerCheckAfterPlay
    \/ WorkerGapSleep
    \/ WorkerGapCancelled
    \/ WorkerGapElapsed
    \/ WorkerFinal

InitAudio ==
    /\ PLAY_TOKEN = 0
    /\ PENDING_REQ = NoReq
    /\ CURRENT_PROC = None
    /\ workerStarted = FALSE
    /\ wpc = "wait_req"
    /\ wtoken = 0
    /\ wfile = "a.mp3"
    /\ wp = None
    /\ wi = 0
    /\ gapOpen = FALSE
    /\ procs = <<>>
    /\ playerAvail \in BOOLEAN
    /\ superseded = {}
    /\ spawnFailed = {}
    /\ requested = <<>>
    /\ lastResult = "none"

NextAudio ==
    \/ PlayNoPlayer
    \/ \E f \in Files : PlayQueued(f)
    \/ WorkerStep
    \/ \E k \in 1..(2 * MaxToken) : ProcExit(k)
    \/ EnvPlayer


(***************************************************************************)
(*                     TRANSLATION CACHE REPOSITORY                        *)
(* Strings are sequences of one-character strings, so that trimming,       *)
(* whitespace collapsing, punctuation stripping and case folding are       *)
(* computed as the code computes them.  now_s ("YYYY-MM-DD HH:MM:SS",      *)
(* compared as text by SQLite) is an integer number of seconds.            *)
(***************************************************************************)

Whitespace == {" "}

\* the characters str.strip(" \t\r\n.,;:!?") removes
TrailingPunct == {" ", ".", "!"}

Lower(c) == CASE c = "A" -> "a" [] c = "B" -> "b" [] OTHER -> c

\* str.casefold()
Casefold(s) == [i \in 1..Len(s) |-> Lower(s[i])]

RECURSIVE LStripChars(_, _)
LStripChars(s, cs) ==
    IF s = <<>> THEN <<>>
    ELSE IF Head(s) \in cs THEN LStripChars(Tail(s), cs) ELSE s

RECURSIVE RStripChars(_, _)
RStripChars(s, cs) ==
    IF s = <<>> THEN <<>>
    ELSE IF s[Len(s)] \in cs THEN RStripChars(SubSeq(s, 1, Len(s) - 1), cs) ELSE s

\* str.strip(chars)
StripChars(s, cs) == RStripChars(LStripChars(s, cs), cs)

\* str.strip()
Strip(s) == StripChars(s, Whitespace)

\* re.sub(r"\s+", " ", s)
RECURSIVE CollapseWs(_)
CollapseWs(s) ==
    IF s = <<>> THEN <<>>
    ELSE IF Head(s) \in Whitespace
         THEN <<" ">> \o CollapseWs(LStripChars(s, Whitespace))
         ELSE <<Head(s)>> \o CollapseWs(Tail(s))

\* _norm_translation
NormTranslation(s) == StripChars(CollapseWs(Strip(s)), TrailingPunct)

\* _should_store_variant
ShouldStoreVariant(term, translation) ==
    LET t  == Casefold(Strip(term))
        tr == Casefold(Strip(translation))
    IN  /\ t # <<>>
        /\ tr # <<>>
        /\ tr # t

\* _ctx_for_storage: the context is kept only if it looks like a sentence;
\* NoText stands for None / ""
NoText == <<>>

CtxForStorage(context) ==
    LET ctx == Strip(CollapseWs(context))
    IN  IF context = NoText THEN NoText
        ELSE IF (\E i \in 1..Len(ctx) : ctx[i] \in Whitespace \cup {".", "!"})
             THEN ctx ELSE NoText

\* SQL COALESCE(last_used, created_at); None is NULL
Coalesce(a, b) == IF a # None THEN a ELSE b

MAX_CTX == 3

SameKey(r, term, src, dst) ==
    r.term = term /\ r.src_lang = src /\ r.dst_lang = dst

\* INSERT INTO entry_translations ... ON CONFLICT(term, src_lang, dst_lang,
\* translation) DO UPDATE SET last_used = excluded.last_used, count = count + 1
UpsertVariant(vs, term, tr, src, dst, created, now) ==
    IF \E v \in vs : SameKey(v, term, src, dst) /\ v.translation = tr
    THEN {IF SameKey(v, term, src, dst) /\ v.translation = tr
          THEN [v EXCEPT !.last_used = now, !.count = v.count + 1]
          ELSE v : v \in vs}
    ELSE vs \cup {[term |-> term, translation |-> tr, src_lang |-> src,
                   dst_lang |-> dst, created_at |-> created, last_used |-> now,
                   count |-> 1]}

InsertEntryAlways(es, id, term, tr, src, dst, detected, now) ==
    es \cup {[id |-> id, term |-> term, translation |-> tr, src_lang |-> src,
              dst_lang |-> dst, detected_raw |-> detected, created_at |-> now,
              last_used |-> now, count |-> 1, hard |-> 0, ignore |-> 0]}

\* INSERT INTO entries ... ON CONFLICT(term, src_lang, dst_lang) DO UPDATE SET
\* last_used = excluded.last_used, count = entries.count + 1
UpsertEntryRow(es, id, term, tr, src, dst, detected, now) ==
    IF \E e \in es : SameKey(e, term, src, dst)
    THEN {IF SameKey(e, term, src, dst)
          THEN [e EXCEPT !.last_used = now, !.count = e.count + 1]
          ELSE e : e \in es}
    ELSE es \cup {[id |-> id, term |-> term, translation |-> tr, src_lang |-> src,
                   dst_lang |-> dst, detected_raw |-> detected, created_at |-> now,
                   last_used |-> now, count |-> 1, hard |-> 0, ignore |-> 0]}

\* INSERT INTO entries_ctx ... ON CONFLICT(term, src_lang, dst_lang, ctx_hash)
\* DO UPDATE SET translation, last_used, count + 1, ctx_text (if not empty)
UpsertCtxRow(cs, id, term, tr, src, dst, h, text, now) ==
    IF \E c \in cs : SameKey(c, term, src, dst) /\ c.ctx_hash = h
    THEN {IF SameKey(c, term, src, dst) /\ c.ctx_hash = h
          THEN [c EXCEPT !.translation = tr, !.last_used = now,
                         !.count = c.count + 1,
                         !.ctx_text = IF text # NoText THEN text ELSE c.ctx_text]
          ELSE c : c \in cs}
    ELSE cs \cup {[id |-> id, term |-> term, translation |-> tr, src_lang |-> src,
                   dst_lang |-> dst, ctx_hash |-> h, ctx_text |-> text,
                   created_at |-> now, last_used |-> now, count |-> 1]}

UsedBeforeById(r, s) == r.id < s.id

\* ORDER BY COALESCE(last_used, created_at) ASC, id ASC
UsedBefore(r, s) ==
    LET ur == Coalesce(r.last_used, r.created_at)
        us == Coalesce(s.last_used, s.created_at)
    IN  ur < us \/ (ur = us /\ r.id < s.id)

EvictCtxOffByOne(cs, term, src, dst, h) ==
    LET keyRows == {c \in cs : SameKey(c, term, src, dst)}
        n       == IF Cardinality(keyRows) > MAX_CTX + 1
                   THEN Cardinality(keyRows) - (MAX_CTX + 1) ELSE 0
        cand    == {c \in keyRows : c.ctx_hash # h}
        victims == {c \in cand :
                       Cardinality({d \in cand : UsedBefore(d, c)}) < n}
    IN  cs \ victims

\* DELETE FROM entries_ctx WHERE id IN (SELECT id ... WHERE key AND
\* ctx_hash != ? ORDER BY usage ASC, id ASC LIMIT max(COUNT(*) - MAX_CTX, 0))
EvictCtx(cs, term, src, dst, h) ==
    LET keyRows == {c \in cs : SameKey(c, term, src, dst)}
        n       == IF Cardinality(keyRows) > MAX_CTX
                   THEN Cardinality(keyRows) - MAX_CTX ELSE 0
        cand    == {c \in keyRows : c.ctx_hash # h}
        victims == {c \in cand :
                       Cardinality({d \in cand : UsedBefore(d, c)}) < n}
    IN  cs \ victims

CacheOp(op, term, src, dst, h, id) ==
    [op |-> op, term |-> term, src |-> src, dst |-> dst, h |-> h, id |-> id]

\* an upsert_base_entry call, with the translation it was given
BaseUpsertOp(term, tr, src, dst) ==
    [op |-> "upsert_base", term |-> term, src |-> src, dst |-> dst, h |-> 0,
     id |-> 0, tr |-> tr]

\* the wall clock after a call that was given now: a request reads the clock
\* when it arrives, so the rows it writes later may carry an earlier time
Later(a, b) == IF b > a THEN b ELSE a

\* TranslationRepo.upsert_base_entry (one transaction)
UpsertBaseEntry(term, tr, src, dst, detected, context, now) ==
    LET ctx      == CtxForStorage(context)
        to_store == IF ctx # NoText THEN ctx ELSE detected
        isNew    == ~\E e \in entries : SameKey(e, term, src, dst)
    IN  /\ entries' = UpsertEntryRow(entries, nextEntryId, term, tr, src, dst,
                                     to_store, now)
        /\ nextEntryId' = IF isNew THEN nextEntryId + 1 ELSE nextEntryId
        /\ entry_translations' =
               UpsertVariant(entry_translations, term, tr, src, dst, now, now)
        /\ cnow' = Later(cnow, now)
        /\ cacheOps' = cacheOps + 1
        /\ lastCacheOp' = BaseUpsertOp(term, tr, src, dst)
        /\ UNCHANGED <<entries_ctx, nextCtxId>>

\* TranslationRepo.touch_base_usage (one transaction)
TouchBaseUsage(entry_id, now) ==
    /\ entries' = {IF e.id = entry_id
                   THEN [e EXCEPT !.last_used = now, !.count = e.count + 1]
                   ELSE e : e \in entries}
    /\ entry_translations' =
           IF \E e \in entries : e.id = entry_id
           THEN LET e == CHOOSE x \in entries : x.id = entry_id
                IN  UpsertVariant(entry_translations, e.term, e.translation,
                                  e.src_lang, e.dst_lang, e.created_at, now)
           ELSE entry_translations
    /\ cnow' = Later(cnow, now)
    /\ cacheOps' = cacheOps + 1
    /\ lastCacheOp' = CacheOp("touch_base", <<>>, "", "", 0, entry_id)
    /\ UNCHANGED <<entries_ctx, nextEntryId, nextCtxId>>

\* TranslationRepo.upsert_ctx_entry (one transaction): upsert the context row,
\* accumulate the variant, evict
UpsertCtxEntry(term, tr, src, dst, h, text, now) ==
    LET isNew   == ~\E c \in entries_ctx : SameKey(c, term, src, dst) /\ c.ctx_hash = h
        tr_norm == NormTranslation(tr)
        rows    == UpsertCtxRow(entries_ctx, nextCtxId, term, tr, src, dst, h,
                                Strip(CollapseWs(text)), now)
    IN  /\ entries_ctx' = EvictCtx(rows, term, src, dst, h)
        /\ nextCtxId' = IF isNew THEN nextCtxId + 1 ELSE nextCtxId
        /\ entry_translations' =
               IF ShouldStoreVariant(term, tr_norm)
               THEN UpsertVariant(entry_translations, term, tr_norm, src, dst, now, now)
               ELSE entry_translations
        /\ cnow' = Later(cnow, now)
        /\ cacheOps' = cacheOps + 1
        /\ lastCacheOp' = CacheOp("upsert_ctx", term, src, dst, h, 0)
        /\ UNCHANGED <<entries, nextEntryId>>

\* TranslationRepo.touch_ctx_usage (one transaction)
TouchCtxUsage(term, src, dst, h, now) ==
    /\ entries_ctx' = {IF SameKey(c, term, src, dst) /\ c.ctx_hash = h
                       THEN [c EXCEPT !.last_used = now, !.count = c.count + 1]
                       ELSE c : c \in entries_ctx}
    /\ cnow' = Later(cnow, now)
    /\ cacheOps' = cacheOps + 1
    /\ lastCacheOp' = CacheOp("touch_ctx", term, src, dst, h, 0)
    /\ UNCHANGED <<entries, entry_translations, nextEntryId, nextCtxId>>

\* ---- inputs
Terms == {<<"a">>, <<"A">>}

Translations == {<<"a">>, <<"A", ".">>, <<"b", " ", " ", "b", "!">>}

SrcLangs == {"EN", "DA"}

DstLangs == {"RU"}

\* detected_source_language as the provider returns it
LangCode(src) == IF src = "EN" THEN <<"E", "N">> ELSE <<"D", "A">>

\* a sentence context, identified with its sha256 (ctx_hash)
Sentence(h) == <<"s", " ", h>>

CtxHashes == {"h1", "h2", "h3", "h4"}

\* the clock read for now_s: the same second as the previous call, or later
Nows == {cnow, cnow + 1}

InitCache ==
    /\ entries = {}
    /\ entries_ctx = {}
    /\ entry_translations = {}
    /\ nextEntryId = 1
    /\ nextCtxId = 1
    /\ cnow = 1
    /\ cacheOps = 0
    /\ lastCacheOp = CacheOp("none", <<>>, "", "", 0, 0)

(***************************************************************************)
(*                     TRANSLATE_WORD (translation_service.py)             *)
(* The HTTP endpoints are threadpool handlers, so translate_word calls     *)
(* overlap.  Every repository call is a transaction of its own; a step of  *)
(* a caller is one repository call together with the local computation     *)
(* that follows it.                                                        *)
(***************************************************************************)

Callers == 1..2

MaxTranslateCalls == 2

NoRow == [id |-> 0]

\* normalize_src_lang(detected, src_hint); hints are upper case already
NormalizeSrcLang(detected, src_hint) ==
    LET upper(c) == CASE c = "a" -> "A" [] c = "d" -> "D" [] c = "e" -> "E"
                      [] c = "n" -> "N" [] OTHER -> c
        code     == [i \in 1..Len(detected) |-> upper(detected[i])]
        starts(pre) == Len(code) >= 2 /\ SubSeq(code, 1, 2) = pre
    IN  IF starts(<<"E", "N">>) THEN "EN"
        ELSE IF starts(<<"D", "A">>) THEN "DA"
        ELSE IF src_hint \in {"EN", "DA"} THEN src_hint
        ELSE "EN"

\* _mw_src_lang (the terms of the model are Latin words)
MwSrcLang(term, src_hint, detected_lang) ==
    IF src_hint # "" THEN src_hint
    ELSE IF detected_lang # "" THEN detected_lang
    ELSE "EN"

\* ctx_hash: sha256 of the normalized context; a sentence <<"s", " ", h>> is
\* given the hash h
CtxHashOf(ctx_text) == ctx_text[Len(ctx_text)]

\* TranslationRepo.get_base_entry_any_src: the rows it may return ({} is None)
\* WHERE trim(term) = trim(?) COLLATE NOCASE ... ORDER BY COALESCE(last_used,
\* created_at) DESC, created_at DESC LIMIT 1: the rows no other row precedes
GetBaseEntryAnySrc(es, term, dst, src_hint) ==
    LET any    == {e \in es : /\ Casefold(Strip(e.term)) = Casefold(Strip(term))
                              /\ e.dst_lang = dst}
        hinted == {e \in any : e.src_lang = src_hint}
        used(r) == Coalesce(r.last_used, r.created_at)
        newest(rows) ==
            {r \in rows : ~\E q \in rows :
                \/ used(q) > used(r)
                \/ used(q) = used(r) /\ q.created_at > r.created_at}
    IN  IF src_hint # "" /\ hinted # {} THEN newest(hinted) ELSE newest(any)

\* TranslationRepo.get_ctx_entry: the rows it may return ({} is None); the
\* query with src_lang has no ORDER BY, the fallback has ORDER BY created_at DESC
GetCtxEntry(cs, term, src, dst, h) ==
    LET any   == {c \in cs : /\ Casefold(Strip(c.term)) = Casefold(Strip(term))
                             /\ c.dst_lang = dst
                             /\ c.ctx_hash = h}
        exact == {c \in any : c.src_lang = src}
    IN  IF src # "" /\ exact # {} THEN exact
        ELSE {c \in any : ~\E d \in any : d.created_at > c.created_at}

\* TranslationRepo.list_ctx_translations (as a set: the limit of 10 is above
\* the number of context rows a key can have)
ListCtxTranslations(cs, term, src, dst) ==
    {c.translation : c \in {x \in cs : SameKey(x, term, src, dst)}} \ {NoText}

\* ---- MW definitions and audio prefetch
NoDefs == [term |-> NoText, src_lang |-> "", defs |-> "", audio_main |-> "",
           audio_ids |-> {}, raw_audio |-> "", created_at |-> 0]

\* what mw_fetch may return: nothing, an entry with audio, or the empty
\* buckets it builds for a suggestion list of strings
MwFetched ==
    {NoDefs,
     [NoDefs EXCEPT !.defs = "d", !.audio_main = "au", !.audio_ids = {"au"},
                    !.raw_audio = "au"],
     [NoDefs EXCEPT !.defs = "empty"]}

\* TranslationRepo.get_mw_definitions
GetMwDefinitions(ms, term, src) ==
    IF \E m \in ms : m.term = term /\ m.src_lang = src
    THEN CHOOSE m \in ms : m.term = term /\ m.src_lang = src
    ELSE NoDefs

UpsertMwDefinitionsRestamp(ms, term, src, defs, now) ==
    {m \in ms : ~(m.term = term /\ m.src_lang = src)}
        \cup {[defs EXCEPT !.term = term, !.src_lang = src, !.created_at = now]}

\* TranslationRepo.upsert_mw_definitions: ON CONFLICT(term, src_lang) updates
\* every column but created_at
UpsertMwDefinitions(ms, term, src, defs, now) ==
    IF \E m \in ms : m.term = term /\ m.src_lang = src
    THEN {IF m.term = term /\ m.src_lang = src
          THEN [defs EXCEPT !.term = term, !.src_lang = src,
                            !.created_at = m.created_at]
          ELSE m : m \in ms}
    ELSE ms \cup {[defs EXCEPT !.term = term, !.src_lang = src, !.created_at = now]}

\* prefetch_mw_audio_in_background: _PREFETCH_INFLIGHT after the call
PrefetchMwAudio(inflight, audio_id) ==
    IF audio_id = "" THEN inflight ELSE inflight \cup {audio_id}

\* ---- the audio cache directory and the threads that download into it
AudioIds == {"au", "bu"}

\* threads that may run ensure_mw_audio_cached at the same time
MaxDownloads == 2

Downloaders == 1..MaxDownloads

\* mw_audio_cache_dir() before any download; a file is "absent", "empty"
\* (created or truncated, nothing written yet) or "complete"
EmptyCacheDir == [aid \in AudioIds |-> [dst |-> "absent", tmp |-> "absent"]]

\* a thread outside ensure_mw_audio_cached; fd is the file its open
\* descriptor refers to: "tmp", "dst" once that file was renamed, "orphan"
\* once it has no name
IdleDownload == [pc |-> "idle", aid |-> "", kind |-> "", fd |-> "none", result |-> ""]

\* ---- the callers
IdleCall ==
    [pc |-> "idle", word |-> NoText, target |-> "", src_hint |-> "",
     context |-> NoText, ctx_text |-> NoText, h |-> "", now |-> 0,
     after_miss |-> FALSE, stored |-> FALSE, kept |-> FALSE,
     row |-> NoRow, tr |-> NoText, src |-> "", mwsrc |-> "", alts |-> {},
     mw |-> NoDefs, provider |-> FALSE, fetched |-> FALSE, hit |-> FALSE, stored_count |-> 0]

NoTranslate ==
    [called |-> FALSE, caller |-> 0, req |-> IdleCall, text |-> NoText,
     detected_source_lang |-> "", from_cache |-> FALSE, count |-> 0,
     error |-> "", context_used |-> FALSE, cache_source |-> "",
     context_raw |-> NoText, ctx_translations |-> {}, mw_definitions |-> NoDefs]

TranslateResultRawContext(c, req, text, src, from_cache, count, error, cache_source, mw) ==
    [called |-> TRUE, caller |-> c, req |-> req, text |-> text,
     detected_source_lang |-> src, from_cache |-> from_cache, count |-> count,
     error |-> error, context_used |-> (req.ctx_text # NoText),
     cache_source |-> cache_source, context_raw |-> req.context,
     ctx_translations |-> req.alts, mw_definitions |-> mw]

\* the dict translate_word returns; req is the call's locals
TranslateResult(c, req, text, src, from_cache, count, error, cache_source, mw) ==
    [called |-> TRUE, caller |-> c, req |-> req, text |-> text,
     detected_source_lang |-> src, from_cache |-> from_cache, count |-> count,
     error |-> error, context_used |-> (req.ctx_text # NoText),
     cache_source |-> cache_source,
     context_raw |-> IF req.ctx_text = NoText THEN NoText
                     ELSE IF req.hit THEN req.row.ctx_text ELSE req.ctx_text,
     ctx_translations |-> req.alts, mw_definitions |-> mw]

ErrorResultCounted(c, req, err) ==
    TranslateResult(c, req, NoText, "", FALSE, 1, err, "", NoDefs)

\* the provider-error return: nothing found, nothing counted
ErrorResult(c, req, err) ==
    TranslateResult(c, req, NoText, "", FALSE, 0, err, "", NoDefs)

\* the return of a hit or of a miss that was stored
ReturnResult(c, req, mw) ==
    IF req.hit
    THEN TranslateResult(c, req, req.row.translation, req.row.src_lang, TRUE,
                         req.row.count + 1, "",
                         IF req.ctx_text # NoText THEN "context" ELSE "base", mw)
    ELSE TranslateResult(c, req, req.tr, req.src, FALSE, 1, "", "", mw)

\* the prefetch thread: ensure_mw_audio_cached, then discard the id
PrefetchRun(aid, ok) ==
    /\ aid \in PREFETCH_INFLIGHT
    /\ audioFiles' = IF ok THEN [audioFiles EXCEPT ![aid].dst = "complete"]
                   ELSE audioFiles
    /\ PREFETCH_INFLIGHT' = PREFETCH_INFLIGHT \ {aid}
    /\ lastTranslate' = NoTranslate
    /\ UNCHANGED <<tw, twCalls, twStored, mw_definitions, cacheVars, dl>>
    /\ UNCHANGED <<bookVars, audioVars, trainerVars, pickVars>>

\* ---- ensure_mw_audio_cached step by step, for threads that overlap

\* what a download leaves alone
DownloadFrame ==
    UNCHANGED <<bookVars, audioVars, cacheVars, trainerVars, pickVars, tw, twCalls, lastTranslate,
                twStored, mw_definitions>>

\* the descriptors of the threads working on aid after the name `from` came
\* to denote another file: they follow their file to the name `to`
Refd(aid, from, to) ==
    [d \in Downloaders |->
        IF dl[d].aid = aid /\ dl[d].fd = from THEN [dl[d] EXCEPT !.fd = to] ELSE dl[d]]

\* prefetch_mw_audio_in_background up to the start of the thread
PrefetchStart(d, aid) ==
    /\ dl[d].pc = "idle"
    /\ aid \notin PREFETCH_INFLIGHT
    /\ PREFETCH_INFLIGHT' = PrefetchMwAudio(PREFETCH_INFLIGHT, aid)
    /\ dl' = [dl EXCEPT ![d] = [IdleDownload EXCEPT !.pc = "check", !.aid = aid,
                                                    !.kind = "prefetch"]]
    /\ UNCHANGED audioFiles
    /\ DownloadFrame

\* POST /mw/audio/play and GET /mw/audio/file/{audio_id}, up to the call of
\* ensure_mw_audio_cached
MwAudioPlay(d, aid) ==
    /\ dl[d].pc = "idle"
    /\ dl' = [dl EXCEPT ![d] = [IdleDownload EXCEPT !.pc = "check", !.aid = aid,
                                                    !.kind = "route"]]
    /\ UNCHANGED <<audioFiles, PREFETCH_INFLIGHT>>
    /\ DownloadFrame

\* lines 80-90: dst.exists() and size > 0 is a hit
DlCheckHit(d) ==
    /\ dl[d].pc = "check"
    /\ dl' = [dl EXCEPT ![d] = IF audioFiles[dl[d].aid].dst = "complete"
                               THEN [dl[d] EXCEPT !.pc = "done", !.result = "hit"]
                               ELSE [dl[d] EXCEPT !.pc = "fetch"]]
    /\ UNCHANGED <<audioFiles, PREFETCH_INFLIGHT>>
    /\ DownloadFrame

\* lines 95-110: urlopen and resp.read(); any failure raises
DlFetch(d, ok) ==
    /\ dl[d].pc = "fetch"
    /\ dl' = [dl EXCEPT ![d].pc = IF ok THEN "open" ELSE "cleanup"]
    /\ UNCHANGED <<audioFiles, PREFETCH_INFLIGHT>>
    /\ DownloadFrame

\* line 112, tmp.write_bytes(data): open(tmp, "wb") creates the file or
\* truncates the one that has this name
DlOpenTmp(d) ==
    /\ dl[d].pc = "open"
    /\ audioFiles' = [audioFiles EXCEPT ![dl[d].aid].tmp = "empty"]
    /\ dl' = [dl EXCEPT ![d].pc = "write", ![d].fd = "tmp"]
    /\ UNCHANGED PREFETCH_INFLIGHT
    /\ DownloadFrame

\* line 112, tmp.write_bytes(data): write the body to the open file and close
DlWrite(d) ==
    /\ dl[d].pc = "write"
    /\ audioFiles' = IF dl[d].fd \in {"tmp", "dst"}
                     THEN [audioFiles EXCEPT ![dl[d].aid][dl[d].fd] = "complete"]
                     ELSE audioFiles
    /\ dl' = [dl EXCEPT ![d].pc = "replace", ![d].fd = "none"]
    /\ UNCHANGED PREFETCH_INFLIGHT
    /\ DownloadFrame

\* lines 113-116: tmp.replace(dst), which raises when tmp has no file
DlReplace(d) ==
    /\ dl[d].pc = "replace"
    /\ LET aid == dl[d].aid
       IN  IF audioFiles[aid].tmp # "absent"
           THEN /\ audioFiles' = [audioFiles EXCEPT ![aid].dst = audioFiles[aid].tmp,
                                                    ![aid].tmp = "absent"]
                /\ dl' = [e \in Downloaders |->
                             IF e = d THEN [dl[d] EXCEPT !.pc = "done",
                                                         !.result = "downloaded"]
                             ELSE IF dl[e].aid = aid /\ dl[e].fd = "tmp"
                                  THEN [dl[e] EXCEPT !.fd = "dst"]
                             ELSE IF dl[e].aid = aid /\ dl[e].fd = "dst"
                                  THEN [dl[e] EXCEPT !.fd = "orphan"]
                             ELSE dl[e]]
           ELSE /\ dl' = [dl EXCEPT ![d].pc = "cleanup"]
                /\ UNCHANGED audioFiles
    /\ UNCHANGED PREFETCH_INFLIGHT
    /\ DownloadFrame

\* lines 118-126: unlink tmp if it exists, then re-raise
DlCleanup(d) ==
    /\ dl[d].pc = "cleanup"
    /\ audioFiles' = [audioFiles EXCEPT ![dl[d].aid].tmp = "absent"]
    /\ dl' = [Refd(dl[d].aid, "tmp", "orphan") EXCEPT ![d].pc = "done",
                                                      ![d].result = "failed"]
    /\ UNCHANGED PREFETCH_INFLIGHT
    /\ DownloadFrame

\* a prefetch thread whose discard sits after the try block instead of in
\* its finally clause: a failed download leaves the id in the set
DlReturnDiscardOnSuccess(d) ==
    /\ dl[d].pc = "done"
    /\ PREFETCH_INFLIGHT' = IF dl[d].kind = "prefetch" /\ dl[d].result # "failed"
                            THEN PREFETCH_INFLIGHT \ {dl[d].aid}
                            ELSE PREFETCH_INFLIGHT
    /\ dl' = [dl EXCEPT ![d].pc = "returned",
                        ![d].result = IF dl[d].result = "failed" THEN "failed"
                                      ELSE audioFiles[dl[d].aid].dst]
    /\ UNCHANGED audioFiles
    /\ DownloadFrame

\* the return to the caller: the prefetch thread discards its id; the routes
\* answer with the path (or 502); result then tells what is under that path
DlReturn(d) ==
    /\ dl[d].pc = "done"
    /\ PREFETCH_INFLIGHT' = IF dl[d].kind = "prefetch"
                            THEN PREFETCH_INFLIGHT \ {dl[d].aid}
                            ELSE PREFETCH_INFLIGHT
    /\ dl' = [dl EXCEPT ![d].pc = "returned",
                        ![d].result = IF dl[d].result = "failed" THEN "failed"
                                      ELSE audioFiles[dl[d].aid].dst]
    /\ UNCHANGED audioFiles
    /\ DownloadFrame

Goto(c, req) == tw' = [tw EXCEPT ![c] = req]

\* translate_word up to its first repository call: get_ctx_entry in context
\* mode, get_base_entry_any_src in base mode
TwStart(c, word, target, src_hint, context, now) ==
    LET ctx_text     == Strip(CollapseWs(context))
        src_expected == IF src_hint # "" THEN src_hint ELSE "EN"
        h            == IF ctx_text # NoText THEN CtxHashOf(ctx_text) ELSE ""
        found        == IF ctx_text # NoText
                        THEN GetCtxEntry(entries_ctx, word, src_expected, target, h)
                        ELSE GetBaseEntryAnySrc(entries, word, target, src_hint)
        req          == [IdleCall EXCEPT !.word = word, !.target = target,
                            !.src_hint = src_hint, !.context = context,
                            !.ctx_text = ctx_text, !.h = h, !.now = now,
                            !.after_miss =
                                [word |-> word, target |-> target, h |-> h] \in twStored,
                            !.stored =
                                IF ctx_text # NoText
                                THEN \E x \in entries_ctx :
                                        /\ x.term = word
                                        /\ x.dst_lang = target
                                        /\ x.ctx_hash = h
                                ELSE \E e \in entries :
                                        e.term = word /\ e.dst_lang = target,
                            !.src = src_expected,
                            !.mwsrc = MwSrcLang(word, src_hint, src_expected)]
    IN  /\ tw[c].pc = "idle"
        /\ twCalls' = twCalls + 1
        /\ IF found = {}
           THEN Goto(c, [req EXCEPT !.pc = "call"])
           ELSE \E row \in found :
                   Goto(c, [req EXCEPT !.pc = "touch", !.row = row, !.hit = TRUE])
        /\ cnow' = Later(cnow, now)
        /\ lastTranslate' = NoTranslate
        /\ UNCHANGED <<entries, entries_ctx, entry_translations, nextEntryId,
                       nextCtxId, cacheOps, lastCacheOp, twStored, mw_definitions,
                       PREFETCH_INFLIGHT, audioFiles, dl>>
        /\ UNCHANGED <<bookVars, audioVars, trainerVars, pickVars>>

\* a hit: touch_ctx_usage with the request's word and src_expected, or
\* touch_base_usage with the id of the row found
TwTouch(c) ==
    LET r == tw[c]
    IN  /\ r.pc = "touch"
        /\ IF r.ctx_text # NoText
           THEN /\ TouchCtxUsage(r.word, r.src, r.target, r.h, r.now)
                /\ Goto(c, [r EXCEPT !.pc = "hit_base"])
           ELSE /\ TouchBaseUsage(r.row.id, r.now)
                /\ Goto(c, [r EXCEPT
                      !.pc = "mw",
                      !.mwsrc = MwSrcLang(r.word, r.src_hint, r.row.src_lang),
                      !.stored_count =
                          IF \E e \in entries' : e.id = r.row.id
                          THEN (CHOOSE e \in entries' : e.id = r.row.id).count
                          ELSE 0])
        /\ lastTranslate' = NoTranslate
        /\ UNCHANGED <<twCalls, twStored, mw_definitions, PREFETCH_INFLIGHT, audioFiles, dl>>
        /\ UNCHANGED <<bookVars, audioVars, trainerVars, pickVars>>

TwHitBaseGetAssumed(c) ==
    LET r == tw[c]
    IN  /\ r.pc = "hit_base"
        /\ Goto(c, [r EXCEPT !.pc = "mw"])
        /\ lastTranslate' = NoTranslate
        /\ UNCHANGED <<twCalls, twStored, mw_definitions, PREFETCH_INFLIGHT, audioFiles, dl, cacheVars>>
        /\ UNCHANGED <<bookVars, audioVars, trainerVars, pickVars>>

\* a context hit: get_base_entry_any_src(word, target_lang) is None?
TwHitBaseGet(c) ==
    LET r == tw[c]
    IN  /\ r.pc = "hit_base"
        /\ IF GetBaseEntryAnySrc(entries, r.word, r.target, "") = {}
           THEN Goto(c, [r EXCEPT !.pc = "hit_upsert"])
           ELSE Goto(c, [r EXCEPT !.pc = "mw"])
        /\ lastTranslate' = NoTranslate
        /\ UNCHANGED <<twCalls, twStored, mw_definitions, PREFETCH_INFLIGHT, audioFiles, dl, cacheVars>>
        /\ UNCHANGED <<bookVars, audioVars, trainerVars, pickVars>>

\* ... then upsert_base_entry(word, cached translation, cached src_lang, "")
TwHitUpsert(c) ==
    LET r == tw[c]
    IN  /\ r.pc = "hit_upsert"
        /\ UpsertBaseEntry(r.word, r.row.translation, r.row.src_lang, r.target,
                           NoText, r.context, r.now)
        /\ Goto(c, [r EXCEPT !.pc = "mw"])
        /\ lastTranslate' = NoTranslate
        /\ UNCHANGED <<twCalls, twStored, mw_definitions, PREFETCH_INFLIGHT, audioFiles, dl>>
        /\ UNCHANGED <<bookVars, audioVars, trainerVars, pickVars>>

\* a miss: deepl_call fails and the call returns ...
TwProviderError(c, err) ==
    LET r == [tw[c] EXCEPT !.provider = TRUE]
    IN  /\ r.pc = "call"
        /\ lastTranslate' = ErrorResult(c, r, err)
        /\ Goto(c, IdleCall)
        /\ UNCHANGED <<twCalls, twStored, mw_definitions, PREFETCH_INFLIGHT, audioFiles, dl, cacheVars>>
        /\ UNCHANGED <<bookVars, audioVars, trainerVars, pickVars>>

\* ... or answers (tr, detected), and upsert_base_entry stores the answer
TwProviderOk(c, tr, detected) ==
    LET src == NormalizeSrcLang(detected, tw[c].src_hint)
        r   == [tw[c] EXCEPT !.provider = TRUE, !.tr = tr, !.src = src, !.mwsrc = src]
    IN  /\ r.pc = "call"
        /\ UpsertBaseEntry(r.word, tr, src, r.target, detected, r.context, r.now)
        /\ Goto(c, [r EXCEPT !.pc = IF r.ctx_text # NoText THEN "miss_ctx" ELSE "mw"])
        /\ lastTranslate' = NoTranslate
        /\ UNCHANGED <<twCalls, twStored, mw_definitions, PREFETCH_INFLIGHT, audioFiles, dl>>
        /\ UNCHANGED <<bookVars, audioVars, trainerVars, pickVars>>

\* a context miss: upsert_ctx_entry
TwMissUpsertCtx(c) ==
    LET r == tw[c]
    IN  /\ r.pc = "miss_ctx"
        /\ UpsertCtxEntry(r.word, r.tr, r.src, r.target, r.h, r.ctx_text, r.now)
        /\ Goto(c, [r EXCEPT !.pc = "miss_list"])
        /\ lastTranslate' = NoTranslate
        /\ UNCHANGED <<twCalls, twStored, mw_definitions, PREFETCH_INFLIGHT, audioFiles, dl>>
        /\ UNCHANGED <<bookVars, audioVars, trainerVars, pickVars>>

\* ... then list_ctx_translations
TwMissList(c) ==
    LET r == tw[c]
    IN  /\ r.pc = "miss_list"
        /\ Goto(c, [r EXCEPT !.pc = "mw",
                             !.alts = ListCtxTranslations(entries_ctx, r.word,
                                                          r.src, r.target)])
        /\ lastTranslate' = NoTranslate
        /\ UNCHANGED <<twCalls, twStored, mw_definitions, PREFETCH_INFLIGHT, audioFiles, dl, cacheVars>>
        /\ UNCHANGED <<bookVars, audioVars, trainerVars, pickVars>>

\* where a call goes once _ensure_mw_definitions has returned mw: a miss
\* returns, a hit goes on to list_ctx_translations
AfterMw(c, r, mw) ==
    IF r.hit
    THEN /\ Goto(c, [r EXCEPT !.pc = "hit_list", !.mw = mw])
         /\ lastTranslate' = NoTranslate
         /\ twStored' = twStored
    ELSE /\ Goto(c, IdleCall)
         /\ lastTranslate' = ReturnResult(c, r, mw)
         /\ twStored' = twStored \cup {[word |-> r.word, target |-> r.target, h |-> r.h]}

\* _ensure_mw_definitions up to the cached row: get_mw_definitions, the
\* backfill of audio ids from raw_json, the prefetch
TwMwGet(c) ==
    LET r       == tw[c]
        cached  == GetMwDefinitions(mw_definitions, r.word, "EN")
        patch   == cached # NoDefs /\ cached.audio_ids = {} /\ cached.raw_audio # ""
        patched == [cached EXCEPT !.audio_main = cached.raw_audio,
                                  !.audio_ids = {cached.raw_audio}]
        row     == IF patch THEN patched ELSE cached
    IN  /\ r.pc = "mw"
        /\ IF r.mwsrc # "EN"
           THEN /\ AfterMw(c, r, NoDefs)
                /\ UNCHANGED <<mw_definitions, PREFETCH_INFLIGHT>>
           ELSE IF cached # NoDefs
           THEN /\ mw_definitions' =
                       IF patch
                       THEN UpsertMwDefinitions(mw_definitions, r.word, "EN", patched, r.now)
                       ELSE mw_definitions
                /\ PREFETCH_INFLIGHT' = PrefetchMwAudio(PREFETCH_INFLIGHT, row.audio_main)
                /\ AfterMw(c, r, row)
           ELSE /\ Goto(c, [r EXCEPT !.pc = "mw_fetch"])
                /\ lastTranslate' = NoTranslate
                /\ UNCHANGED <<twStored, mw_definitions, PREFETCH_INFLIGHT>>
        /\ UNCHANGED <<twCalls, audioFiles, dl, cacheVars>>
        /\ UNCHANGED <<bookVars, audioVars, trainerVars, pickVars>>

\* ... and past it: mw_fetch, upsert_mw_definitions, the prefetch, and
\* get_mw_definitions again
TwMwFetch(c, defs) ==
    LET r == [tw[c] EXCEPT !.fetched = TRUE]
    IN  /\ r.pc = "mw_fetch"
        /\ IF defs = NoDefs
           THEN /\ AfterMw(c, r, NoDefs)
                /\ UNCHANGED <<mw_definitions, PREFETCH_INFLIGHT>>
           ELSE /\ mw_definitions' =
                       UpsertMwDefinitions(mw_definitions, r.word, "EN", defs, r.now)
                /\ PREFETCH_INFLIGHT' = PrefetchMwAudio(PREFETCH_INFLIGHT, defs.audio_main)
                /\ AfterMw(c, r, GetMwDefinitions(mw_definitions', r.word, "EN"))
        /\ UNCHANGED <<twCalls, audioFiles, dl, cacheVars>>
        /\ UNCHANGED <<bookVars, audioVars, trainerVars, pickVars>>

\* a hit: list_ctx_translations for the row's src_lang, and the return
TwHitList(c) ==
    LET r  == tw[c]
        r2 == [r EXCEPT !.alts = ListCtxTranslations(entries_ctx, r.word,
                                                     r.row.src_lang, r.target),
                        !.kept = \E x \in entries_ctx :
                                    /\ x.id = r.row.id
                                    /\ x.translation = r.row.translation]
    IN  /\ r.pc = "hit_list"
        /\ lastTranslate' = ReturnResult(c, r2, r.mw)
        /\ Goto(c, IdleCall)
        /\ UNCHANGED <<twCalls, twStored, mw_definitions, PREFETCH_INFLIGHT, audioFiles, dl, cacheVars>>
        /\ UNCHANGED <<bookVars, audioVars, trainerVars, pickVars>>

InitTranslateIdle ==
    /\ tw = [c \in Callers |-> IdleCall]
    /\ twCalls = 0
    /\ lastTranslate = NoTranslate
    /\ twStored = {}
    /\ mw_definitions = {}
    /\ PREFETCH_INFLIGHT = {}
    /\ audioFiles = EmptyCacheDir
    /\ dl = [d \in Downloaders |-> IdleDownload]

(***************************************************************************)
(*                              BOOKMARKS                                  *)
(* One request at a time.  The table has the unique key (path, lnum, col,  *)
(* kind) that upsert_mark names in its ON CONFLICT clause.                 *)
(***************************************************************************)

NoFile == "none"

\* book files: two regular paths, a path to move or copy to, and a symbolic
\* link to "a"
BookPaths == {"a", "b", "c"}

\* os.path.realpath
CanonPath(p) == IF p = "la" THEN "a" ELSE p

\* BookMarksRepo.list_by_path; the rows, which the caller gets ordered by
\* (lnum, col)
ListByPath(bm, p) == {m \in bm : m.path = CanonPath(p)}

\* BookMarksRepo.list_by_fingerprint
ListByFingerprint(bm, fp) == {m \in bm : m.fingerprint = fp}

\* the UNIQUE index on (path, lnum, col, kind)
UniqueMarkKey(bm) ==
    \A m, n \in bm :
        (m.path = n.path /\ m.lnum = n.lnum /\ m.col = n.col /\ m.kind = n.kind) => m = n

\* BookMarksRepo.relink_path_for_fingerprint: the rows after the UPDATE
RelinkPathForFingerprint(bm, fp, new_path) ==
    {IF m.fingerprint = fp THEN [m EXCEPT !.path = CanonPath(new_path)] ELSE m : m \in bm}

NoMarks == [op |-> "none", path |-> "", by |-> "", error |-> "", marks |-> {},
            fingerprint |-> NoFile]

\* BookmarksService.upsert_mark on an existing file
UpsertMark(path, lnum, col, kind, term) ==
    LET canon == CanonPath(path)
        fp    == bookFiles[canon]
        old   == {m \in book_marks : m.path = canon /\ m.lnum = lnum /\ m.col = col
                                     /\ m.kind = kind}
    IN  /\ fp # NoFile
        /\ IF old = {}
           THEN /\ book_marks' = book_marks \cup
                       {[id |-> nextMarkId, path |-> canon, fingerprint |-> fp,
                         lnum |-> lnum, col |-> col, kind |-> kind, term |-> term]}
                /\ nextMarkId' = nextMarkId + 1
           ELSE /\ book_marks' = {IF m \in old
                                  THEN [m EXCEPT !.fingerprint = fp, !.term = term]
                                  ELSE m : m \in book_marks}
                /\ UNCHANGED nextMarkId
        /\ lastMarks' = [NoMarks EXCEPT !.op = "upsert", !.path = canon,
                                        !.fingerprint = fp]
        /\ bookOps' = bookOps + 1
        /\ UNCHANGED bookFiles

\* BookmarksService.list_marks_for_path; sha256_file raises FileNotFoundError
\* for a missing file, the UPDATE raises IntegrityError when two of the rows
\* it moves to new_path have the same (lnum, col, kind)
ListMarksForPath(path) ==
    LET canon   == CanonPath(path)
        by_path == ListByPath(book_marks, canon)
        fp      == bookFiles[canon]
        by_fp   == ListByFingerprint(book_marks, fp)
        moved   == RelinkPathForFingerprint(book_marks, fp, canon)
        answer  == [NoMarks EXCEPT !.op = "list", !.path = canon]
    IN  /\ IF by_path # {}
           THEN /\ lastMarks' = [answer EXCEPT !.by = "path", !.marks = by_path,
                                  !.fingerprint = (CHOOSE m \in by_path :
                                      \A n \in by_path :
                                          m.lnum < n.lnum
                                          \/ (m.lnum = n.lnum /\ m.col <= n.col)).fingerprint]
                /\ UNCHANGED book_marks
           ELSE IF fp = NoFile
           THEN /\ lastMarks' = [answer EXCEPT !.error = "FileNotFoundError"]
                /\ UNCHANGED book_marks
           ELSE IF by_fp = {}
           THEN /\ lastMarks' = [answer EXCEPT !.by = "fingerprint", !.fingerprint = fp]
                /\ UNCHANGED book_marks
           ELSE IF ~UniqueMarkKey(moved)
           THEN /\ lastMarks' = [answer EXCEPT !.by = "fingerprint", !.fingerprint = fp,
                                               !.error = "IntegrityError"]
                /\ UNCHANGED book_marks
           ELSE /\ lastMarks' = [answer EXCEPT !.by = "fingerprint", !.fingerprint = fp,
                                               !.marks = by_fp]
                /\ book_marks' = moved
        /\ bookOps' = bookOps + 1
        /\ UNCHANGED <<bookFiles, nextMarkId>>

\* the user renames or moves a book file
MoveFile(p, q) ==
    /\ p # q
    /\ bookFiles[p] # NoFile
    /\ bookFiles' = [bookFiles EXCEPT ![q] = bookFiles[p], ![p] = NoFile]
    /\ lastMarks' = NoMarks
    /\ bookOps' = bookOps + 1
    /\ UNCHANGED <<book_marks, nextMarkId>>

\* the user copies a book file
CopyFile(p, q) ==
    /\ p # q
    /\ bookFiles[p] # NoFile
    /\ bookFiles' = [bookFiles EXCEPT ![q] = bookFiles[p]]
    /\ lastMarks' = NoMarks
    /\ bookOps' = bookOps + 1
    /\ UNCHANGED <<book_marks, nextMarkId>>

\* no marks yet; the book "a" and a second file with the given content
InitBooks(second) ==
    /\ book_marks = {}
    /\ bookFiles = [p \in BookPaths |-> IF p = "a" THEN "x" ELSE IF p = "b" THEN second
                                         ELSE NoFile]
    /\ nextMarkId = 1
    /\ bookOps = 0
    /\ lastMarks = NoMarks

(***************************************************************************)
(*                               TRAINER                                   *)
(* Unix timestamps are pairs [d, s] = 86400 * d + s, so that due_at values *)
(* beyond 32 bits are computed exactly.  ef is held in hundredths.         *)
(***************************************************************************)

TS(d, s) == [d |-> d, s |-> s]

\* a < b on timestamps
TsLess(a, b) == a.d < b.d \/ (a.d = b.d /\ a.s < b.s)

\* t + n * 86400
TsAddDays(t, n) == [d |-> t.d + n, s |-> t.s]

\* t + k for 0 <= k < 86400
TsAddSecs(t, k) ==
    IF t.s + k >= 86400 THEN [d |-> t.d + 1, s |-> t.s + k - 86400]
    ELSE [d |-> t.d, s |-> t.s + k]

\* t // 1000: with t.d = 5a + b, 86400 * 5a // 1000 = 432a exactly, and
\* 432a seconds are a \div 200 days and 432 * (a % 200) seconds
TsDiv1000(t) ==
    LET a == t.d \div 5
        b == t.d % 5
        c == (86400 * b + t.s) \div 1000
    IN  [d |-> a \div 200, s |-> 432 * (a % 200) + c]

\* the timestamp as one integer, for values below 2^31
TsToSecs(t) == 86400 * t.d + t.s

\* int(x or 0) of a NULL timestamp
ZeroTs == TS(0, 0)

\* 10_000_000_000 = 86400 * 115740 + 64000
MsThreshold == TS(115740, 64000)

\* NULL in training_cards.last_grade
NoGrade == -1

EfDefault == 250

EfFloor == 130

UpdateEfNoFloor(ef, grade) ==
    LET q == 5 - grade
    IN  ef + (10 - q * (8 + q * 2))

\* _update_ef
UpdateEf(ef, grade) ==
    LET q == 5 - grade
        e == ef + (10 - q * (8 + q * 2))
    IN  IF e < EfFloor THEN EfFloor ELSE e

\* int(round(prev * ef)): prev * ef / 100 to the nearest integer.  An exact
\* tie is decided by the floating-point error of the product: up says which
\* way it fell.
RoundMul(prev, ef, up) ==
    LET a == prev \div 100
        b == prev % 100
        q == a * ef + (b * ef) \div 100
        r == (b * ef) % 100
    IN  IF r > 50 \/ (r = 50 /\ up) THEN q + 1 ELSE q

\* _next_interval_days
NextIntervalDays(reps, prev_interval, ef, up) ==
    IF reps <= 1 THEN 1
    ELSE IF reps = 2 THEN 3
    ELSE LET r == RoundMul(prev_interval, ef, up)
         IN  IF r < 1 THEN 1 ELSE r

\* compute_srs on the row dict returned by _get_training_card_conn
ComputeSrs(card, grade, now_ts, up) ==
    LET reps == card.reps
        ef   == IF card.ef = 0 THEN EfDefault ELSE card.ef
        prev == IF card.interval_days < 1 THEN 1 ELSE card.interval_days
        ef2  == UpdateEf(ef, grade)
        ivl  == NextIntervalDays(reps + 1, prev, ef2, up)
    IN  IF grade < 3
        THEN [reps |-> 0, lapses |-> card.lapses + 1, ef |-> ef2,
              interval_days |-> 1, due_at |-> TsAddDays(now_ts, 1),
              last_review_at |-> now_ts, last_grade |-> grade,
              correct_streak |-> 0, wrong_streak |-> card.wrong_streak + 1]
        ELSE [reps |-> reps + 1, lapses |-> card.lapses, ef |-> ef2,
              interval_days |-> ivl, due_at |-> TsAddDays(now_ts, ivl),
              last_review_at |-> now_ts, last_grade |-> grade,
              correct_streak |-> card.correct_streak + 1, wrong_streak |-> 0]

\* the timestamp normalisation of _update_training_card_srs_conn; wall is
\* its own reading of time.time()
NormalizeDue(due_at, wall) ==
    LET due1 == IF TsLess(MsThreshold, due_at) THEN TsDiv1000(due_at) ELSE due_at
    IN  IF due1 # ZeroTs /\ TsLess(due1, TsAddDays(wall, -365))
        THEN TsAddDays(wall, 1) ELSE due1

NormalizeLastReview(last_review_at) ==
    IF TsLess(MsThreshold, last_review_at) THEN TsDiv1000(last_review_at)
    ELSE last_review_at

\* _update_training_card_srs_conn: the UPDATE of one card row
UpdateTrainingCardSrs(card, srs, wall) ==
    [card EXCEPT !.reps = srs.reps, !.lapses = srs.lapses, !.ef = srs.ef,
                 !.interval_days = srs.interval_days,
                 !.due_at = NormalizeDue(srs.due_at, wall),
                 !.last_review_at = NormalizeLastReview(srs.last_review_at),
                 !.last_grade = srs.last_grade,
                 !.correct_streak = srs.correct_streak,
                 !.wrong_streak = srs.wrong_streak]

\* the columns _get_training_card_conn selects
SelectedCols == {"id", "reps", "lapses", "ef", "interval_days", "due_at",
                 "last_review_at", "last_grade", "correct_streak", "wrong_streak",
                 "suspended"}

\* _get_training_card_conn: dict(row)
GetTrainingCard(card) == [f \in SelectedCols |-> card[f]]

\* int(card.get("entry_id") or 0)
EntryIdOf(row) == IF "entry_id" \in DOMAIN row THEN row.entry_id ELSE 0

\* the row INSERTed by _ensure_card_for_entry_conn, with the column defaults
NewCard(id, entry_id, now_ts) ==
    [id |-> id, entry_id |-> entry_id, reps |-> 0, lapses |-> 0, ef |-> EfDefault,
     interval_days |-> 0, due_at |-> now_ts, last_review_at |-> ZeroTs,
     last_grade |-> NoGrade, correct_streak |-> 0, wrong_streak |-> 0,
     suspended |-> 0]

ReviewRow(card_id, now_ts, grade) ==
    [card_id |-> card_id, ts |-> now_ts, grade |-> grade, day |-> now_ts.d]

NoReview ==
    [ok |-> FALSE, error |-> "", card_id |-> 0, grade |-> NoGrade, now |-> ZeroTs,
     pre |-> NewCard(0, 0, ZeroTs), entriesBefore |-> {}]

ReviewTrainingCardLogOnly(card_id, grade, up, lag) ==
    /\ grade \in 0..5
    /\ \E c \in cards :
        /\ c.id = card_id
        /\ c.suspended # 1
        /\ lastReview' = [ok |-> TRUE, error |-> "", card_id |-> card_id,
                          grade |-> grade,
                          now |-> tnow, pre |-> c, entriesBefore |-> entries]
    /\ reviews' = Append(reviews, ReviewRow(card_id, tnow, grade))
    /\ trainerOps' = trainerOps + 1
    /\ UNCHANGED <<cards, entries, nextCardId, tnow>>

\* TrainerService.review_training_card (one transaction); up is the rounding
\* of an exact tie, lag the seconds between the caller's now and the
\* repository's time.time()
ReviewTrainingCard(card_id, grade, up, lag) ==
    /\ grade \in 0..5
    /\ \E c \in cards :
        /\ c.id = card_id
        /\ c.interval_days <= IntervalCap
        /\ LET row      == GetTrainingCard(c)
               srs      == ComputeSrs(row, grade, tnow, up)
               wall     == TsAddSecs(tnow, lag)
               entry_id == EntryIdOf(row)
           IN  /\ row.suspended # 1
               /\ reviews' = Append(reviews, ReviewRow(card_id, tnow, grade))
               /\ cards' = (cards \ {c}) \cup {UpdateTrainingCardSrs(c, srs, wall)}
               /\ entries' = IF entry_id # 0
                             THEN {IF e.id = entry_id
                                   THEN [e EXCEPT !.last_used = TsToSecs(tnow),
                                                  !.count = e.count + 1]
                                   ELSE e : e \in entries}
                             ELSE entries
               /\ lastReview' = [ok |-> TRUE, error |-> "", card_id |-> card_id,
                                 grade |-> grade,
                                 now |-> tnow, pre |-> c, entriesBefore |-> entries]
    /\ trainerOps' = trainerOps + 1
    /\ UNCHANGED <<nextCardId, tnow>>

ReviewRejectedAfterInsert(card_id, grade) ==
    /\ \/ grade \notin 0..5
       \/ ~\E c \in cards : c.id = card_id
       \/ \E c \in cards : c.id = card_id /\ c.suspended = 1
    /\ lastReview' = [NoReview EXCEPT !.error = "ValueError", !.card_id = card_id,
                                      !.grade = grade]
    /\ trainerOps' = trainerOps + 1
    /\ reviews' = Append(reviews, ReviewRow(card_id, tnow, grade))
    /\ UNCHANGED <<cards, entries, nextCardId, tnow>>

\* review_training_card raising ValueError: grade out of range, card missing
\* or suspended; the checks precede every write, and the transaction is
\* rolled back
ReviewRejected(card_id, grade) ==
    /\ \/ grade \notin 0..5
       \/ ~\E c \in cards : c.id = card_id
       \/ \E c \in cards : c.id = card_id /\ c.suspended = 1
    /\ lastReview' = [NoReview EXCEPT !.error = "ValueError", !.card_id = card_id,
                                      !.grade = grade]
    /\ trainerOps' = trainerOps + 1
    /\ UNCHANGED <<cards, reviews, entries, nextCardId, tnow>>

\* TrainerRepo._ensure_card_for_entry_conn
EnsureCardForEntry(entry_id) ==
    /\ IF \E c \in cards : c.entry_id = entry_id
       THEN UNCHANGED <<cards, nextCardId>>
       ELSE /\ cards' = cards \cup {NewCard(nextCardId, entry_id, tnow)}
            /\ nextCardId' = nextCardId + 1
    /\ lastReview' = NoReview
    /\ trainerOps' = trainerOps + 1
    /\ UNCHANGED <<reviews, entries, tnow>>

MarkIgnoreDropsReviews(entry_id) ==
    /\ entries' = {IF e.id = entry_id THEN [e EXCEPT !.ignore = 1] ELSE e : e \in entries}
    /\ cards' = {IF c.entry_id = entry_id THEN [c EXCEPT !.suspended = 1] ELSE c : c \in cards}
    /\ lastReview' = NoReview
    /\ trainerOps' = trainerOps + 1
    /\ reviews' = SelectSeq(reviews, LAMBDA r :
                      ~\E c \in cards : c.id = r.card_id /\ c.entry_id = entry_id)
    /\ UNCHANGED <<nextCardId, tnow>>

\* POST /train/mark_ignore with an entry_id
MarkIgnore(entry_id) ==
    /\ entries' = {IF e.id = entry_id THEN [e EXCEPT !.ignore = 1] ELSE e : e \in entries}
    /\ cards' = {IF c.entry_id = entry_id THEN [c EXCEPT !.suspended = 1] ELSE c : c \in cards}
    /\ lastReview' = NoReview
    /\ trainerOps' = trainerOps + 1
    /\ UNCHANGED <<reviews, nextCardId, tnow>>

\* a day passes
Tick ==
    /\ tnow' = TsAddDays(tnow, 1)
    /\ lastReview' = NoReview
    /\ trainerOps' = trainerOps + 1
    /\ UNCHANGED <<cards, reviews, entries, nextCardId>>

(***************************************************************************)
(* Progress and the training picker.  A calendar day (now.date(), stored   *)
(* as an ISO string, which sorts as the date does) is its day number.      *)
(***************************************************************************)

\* default limit of _list_active_days_desc_conn
ACTIVE_DAYS_LIMIT == 400

\* _count_reviews_for_day_conn
CountReviewsForDay(rs, day) == Cardinality({i \in 1..Len(rs) : rs[i].day = day})

\* _list_active_days_desc_conn: GROUP BY day ORDER BY day DESC LIMIT limit
ListActiveDaysDesc(rs, limit) ==
    LET days == {rs[i].day : i \in 1..Len(rs)}
    IN  {d \in days : Cardinality({x \in days : x > d}) < limit}

\* the while loop of get_progress: the number of consecutive days, going
\* back from day, that are in active
StreakFrom(day, active) ==
    CHOOSE k \in 0..Cardinality(active) :
        /\ \A j \in 0..(k - 1) : (day - j) \in active
        /\ (day - k) \notin active

\* TrainerService.get_progress
GetProgress(rs, now) ==
    [day |-> now.d,
     today_done |-> CountReviewsForDay(rs, now.d),
     streak_days |-> StreakFrom(now.d, ListActiveDaysDesc(rs, ACTIVE_DAYS_LIMIT))]

NoProgress == [day |-> 0, today_done |-> 0, streak_days |-> 0]

\* getattr(self.cfg, "hard_random_top_n", 5)
HardRandomTopN == 5

\* the threshold above which the readers take a stored due_at for
\* milliseconds: 100000000000
ReaderMsThreshold == TS(1157407, 35200)

\* CASE WHEN due_at > 100000000000 THEN due_at / 1000 ELSE due_at END
ReadDue(due_at) ==
    IF TsLess(ReaderMsThreshold, due_at) THEN TsDiv1000(due_at) ELSE due_at

\* src_langs = [src_filter] if src_filter else ["EN"]; "" is None
SrsLangs(src_filter) == IF src_filter # "" THEN {src_filter} ELSE {"EN"}

\* ORDER BY COALESCE(x.last_used, x.created_at) DESC, x.count DESC, x.id DESC
CtxNewer(x, y) ==
    LET ux == Coalesce(x.last_used, x.created_at)
        uy == Coalesce(y.last_used, y.created_at)
    IN  \/ ux > uy
        \/ ux = uy /\ x.count > y.count
        \/ ux = uy /\ x.count = y.count /\ x.id > y.id

\* the context_raw subquery: the text of the entry's most recently used
\* context row that has one, '' when there is none
ContextRawOf(e, cs) ==
    LET xs == {x \in cs : SameKey(x, e.term, e.src_lang, e.dst_lang)
                          /\ x.ctx_text # NoText}
    IN  IF xs = {} THEN NoText
        ELSE (CHOOSE x \in xs : \A y \in xs \ {x} : CtxNewer(x, y)).ctx_text

DueCardsIgnoringExclusions(cs, es, src_langs, now_ts, exclude) ==
    {c \in cs : /\ c.suspended = 0
                /\ ~TsLess(now_ts, ReadDue(c.due_at))
                /\ \E e \in es : /\ e.id = c.entry_id
                                 /\ e.ignore = 0
                                 /\ e.src_lang \in src_langs}

\* the WHERE clause of _list_due_entries_conn
DueCards(cs, es, src_langs, now_ts, exclude) ==
    {c \in cs : /\ c.suspended = 0
                /\ c.id \notin exclude
                /\ ~TsLess(now_ts, ReadDue(c.due_at))
                /\ \E e \in es : /\ e.id = c.entry_id
                                 /\ e.ignore = 0
                                 /\ e.src_lang \in src_langs}

\* ORDER BY due_at ASC, c.lapses DESC, c.wrong_streak DESC
DueBefore(c, d) ==
    \/ TsLess(ReadDue(c.due_at), ReadDue(d.due_at))
    \/ ReadDue(c.due_at) = ReadDue(d.due_at) /\ c.lapses > d.lapses
    \/ /\ ReadDue(c.due_at) = ReadDue(d.due_at)
       /\ c.lapses = d.lapses
       /\ c.wrong_streak > d.wrong_streak

\* LIMIT 1: a row no other row precedes (rows that tie come in any order)
ListDueEntries(cs, es, src_langs, now_ts, exclude) ==
    LET due == DueCards(cs, es, src_langs, now_ts, exclude)
    IN  {c \in due : ~\E d \in due : DueBefore(d, c)}

ListNewEntriesWithIgnored(cs, es, src_langs) ==
    {e \in es : /\ e.src_lang \in src_langs
                /\ ~\E c \in cs : c.entry_id = e.id}

\* the WHERE clause of _list_new_entries_conn: entries without a card
ListNewEntries(cs, es, src_langs) ==
    {e \in es : /\ e.ignore = 0
                /\ e.src_lang \in src_langs
                /\ ~\E c \in cs : c.entry_id = e.id}

\* the row both queries return for entry e; due_at is NULL in the row of the
\* new query and the normalized column in the row of the due query
PickItem(mode, card_id, e, ctxs) ==
    [mode |-> mode, card_id |-> card_id, entry_id |-> e.id, term |-> e.term,
     translation |-> e.translation, src_lang |-> e.src_lang,
     dst_lang |-> e.dst_lang, detected_raw |-> e.detected_raw,
     context_raw |-> ContextRawOf(e, ctxs), due_at |-> ZeroTs]

\* finalize without the inheritance
FinalizeAsIs(item) == item

\* finalize: the two context keys inherit from each other
Finalize(item) ==
    LET ctx  == Strip(item.context_raw)
        det  == Strip(item.detected_raw)
        ctx2 == IF ctx = NoText /\ det # NoText THEN det ELSE ctx
    IN  [item EXCEPT
            !.context_raw  = IF ctx = NoText /\ det # NoText THEN det ELSE @,
            !.detected_raw = IF det = NoText /\ ctx2 # NoText THEN ctx2 ELSE @]

NoItem ==
    [mode |-> "", card_id |-> 0, entry_id |-> 0, term |-> NoText,
     translation |-> NoText, src_lang |-> "", dst_lang |-> "",
     detected_raw |-> NoText, context_raw |-> NoText, due_at |-> ZeroTs]

\* what a pick_training_word call was given, found and produced: the
\* exception it raised if any, the entry it went to make a card for if any,
\* and the item it returned
PickResult(error, wanted, item, progress, src_filter, exclude, now_ts) ==
    [called |-> TRUE, raised |-> error # "", error |-> error, wanted |-> wanted,
     item |-> item, progress |-> progress,
     src_filter |-> src_filter, exclude |-> exclude, now |-> now_ts,
     entriesBefore |-> entries, cardsBefore |-> cards]

NoPick ==
    [called |-> FALSE, raised |-> FALSE, error |-> "", wanted |-> 0,
     item |-> NoItem, progress |-> NoProgress,
     src_filter |-> "", exclude |-> {}, now |-> ZeroTs,
     entriesBefore |-> {}, cardsBefore |-> {}]

\* the legacy picker (deepl_helper.py) bumped the usage of the word it chose
EntriesAfterPickTouched(es, entry_id, now_ts) ==
    {IF e.id = entry_id
     THEN [e EXCEPT !.last_used = TsToSecs(now_ts), !.count = e.count + 1]
     ELSE e : e \in es}

\* table entries after a pick: pick_training_word has no statement that
\* writes it
EntriesAfterPick(es, entry_id, now_ts) == es

\* TrainerService.pick_training_word (one transaction).  pick_new is
\* random.random() < srs_new_ratio.  When neither a due card nor a new entry
\* is returned the call of _list_hard_entries_conn(..., allow_future=True)
\* raises TypeError (the method has no such parameter) and the transaction is
\* rolled back, so the hard and fallback pools are never reached.
PickTrainingWord(src_filter, exclude, pick_new) ==
    LET src_langs == SrsLangs(src_filter)
        due       == ListDueEntries(cards, entries, src_langs, tnow, exclude)
        new_items == ListNewEntries(cards, entries, src_langs)
        progress  == GetProgress(reviews, tnow)
    IN  /\ IF due # {}
           THEN \E c \in due :
                   LET e == CHOOSE x \in entries : x.id = c.entry_id
                   IN  /\ lastPick' = PickResult("", 0,
                               Finalize([PickItem("srs_due", c.id, e, entries_ctx)
                                            EXCEPT !.due_at = ReadDue(c.due_at)]),
                               progress, src_filter, exclude, tnow)
                       /\ entries' = EntriesAfterPick(entries, e.id, tnow)
                       /\ UNCHANGED <<cards, nextCardId>>
           ELSE IF pick_new /\ new_items # {}
           THEN \E e \in new_items :
                   /\ cards' = cards \cup {NewCard(nextCardId, e.id, tnow)}
                   /\ nextCardId' = nextCardId + 1
                   /\ lastPick' = PickResult("", e.id,
                           Finalize(PickItem("srs_new", nextCardId, e, entries_ctx)),
                           progress, src_filter, exclude, tnow)
                   /\ entries' = EntriesAfterPick(entries, e.id, tnow)
           ELSE /\ lastPick' = PickResult("TypeError", 0, NoItem, NoProgress,
                                          src_filter, exclude, tnow)
                /\ UNCHANGED <<cards, nextCardId, entries>>
        /\ lastReview' = NoReview
        /\ trainerOps' = trainerOps + 1
        /\ UNCHANGED <<reviews, tnow>>

\* everything a transaction's snapshot of the database file shows
DbState == <<cards, reviews, entries, entries_ctx, entry_translations>>

NoTx ==
    [open |-> FALSE, item |-> NoItem, src_filter |-> "", exclude |-> {},
     now |-> ZeroTs, snap |-> <<{}, <<>>, {}, {}, {}>>]

SnapshotAlwaysFresh(snap) == TRUE

\* SQLite lets a deferred transaction that has read write only while its
\* snapshot is the latest one: otherwise the INSERT fails with "database is
\* locked", the SELECT of the except branch (same snapshot) finds no row and
\* the error is re-raised
SnapshotFresh(snap) == snap = DbState

\* pick_training_word running concurrently with other requests (the HTTP
\* endpoints are threadpool handlers): BEGIN and the two SELECTs that find
\* no due card and choose a new entry
PickNewBegin(src_filter, exclude) ==
    LET src_langs == SrsLangs(src_filter)
        due       == ListDueEntries(cards, entries, src_langs, tnow, exclude)
        new_items == ListNewEntries(cards, entries, src_langs)
    IN  /\ ~pickTx.open
        /\ due = {}
        /\ \E e \in new_items :
              pickTx' = [open |-> TRUE, item |-> PickItem("srs_new", 0, e, entries_ctx),
                         src_filter |-> src_filter, exclude |-> exclude,
                         now |-> tnow, snap |-> DbState]
        /\ lastPick' = NoPick
        /\ lastReview' = NoReview
        /\ UNCHANGED <<cards, reviews, entries, nextCardId, tnow, trainerOps,
                       lastProgress>>

\* ... and the rest of that call: _ensure_card_for_entry_conn, finalize, COMMIT
PickNewFinish ==
    /\ pickTx.open
    /\ IF SnapshotFresh(pickTx.snap)
       THEN /\ cards' = cards \cup {NewCard(nextCardId, pickTx.item.entry_id, pickTx.now)}
            /\ nextCardId' = nextCardId + 1
            /\ lastPick' = PickResult("", pickTx.item.entry_id,
                    Finalize([pickTx.item EXCEPT !.card_id = nextCardId]),
                    GetProgress(reviews, pickTx.now), pickTx.src_filter,
                    pickTx.exclude, pickTx.now)
            /\ entries' = EntriesAfterPick(entries, pickTx.item.entry_id, pickTx.now)
       ELSE /\ lastPick' = PickResult("OperationalError", pickTx.item.entry_id,
                                      NoItem, NoProgress, pickTx.src_filter,
                                      pickTx.exclude, pickTx.now)
            /\ UNCHANGED <<cards, nextCardId, entries>>
    /\ pickTx' = NoTx
    /\ lastReview' = NoReview
    /\ trainerOps' = trainerOps + 1
    /\ UNCHANGED <<reviews, tnow, lastProgress>>

\* TrainerService.get_progress called on its own
Progress ==
    /\ lastProgress' = GetProgress(reviews, tnow)
    /\ lastPick' = NoPick
    /\ lastReview' = NoReview
    /\ trainerOps' = trainerOps + 1
    /\ UNCHANGED <<cards, reviews, entries, nextCardId, tnow, pickTx>>


\* 2025-11-03 20:00:00 UTC
Clock0 == TS(20395, 72000)

\* an entry's card after k reviews graded 5, each made at time now_ts
RECURSIVE Trained(_, _, _, _)
Trained(card, k, now_ts, up) ==
    IF k = 0 THEN card
    ELSE LET c == Trained(card, k - 1, now_ts, up)
         IN  UpdateTrainingCardSrs(c, ComputeSrs(GetTrainingCard(c), 5, now_ts, up),
                                   now_ts)

\* numbers of earlier reviews the explored decks start from
TrainedReviews == {0, 2, 10, 13, 16}

\* an empty trainer
InitTrainerEmpty ==
    /\ cards = {}
    /\ reviews = <<>>
    /\ nextCardId = 1
    /\ tnow = Clock0
    /\ trainerOps = 0
    /\ lastReview = NoReview
    /\ lastPick = NoPick
    /\ lastProgress = NoProgress
    /\ pickTx = NoTx

\* two cached entries; the first has a card that has been reviewed k times
InitTrainer ==
    /\ InitAudio
    /\ playerAvail
    /\ InitBooks("y")
    /\ InitTranslateIdle
    /\ entries = UpsertEntryRow(UpsertEntryRow({}, 1, <<"a">>, <<"b">>, "EN", "RU",
                                               LangCode("EN"), 1),
                                2, <<"a">>, <<"b">>, "DA", "RU", LangCode("DA"), 2)
    /\ entry_translations =
           UpsertVariant(UpsertVariant({}, <<"a">>, <<"b">>, "EN", "RU", 1, 1),
                         <<"a">>, <<"b">>, "DA", "RU", 2, 2)
    /\ entries_ctx = {}
    /\ nextEntryId = 3
    /\ nextCtxId = 1
    /\ cnow = 2
    /\ cacheOps = 2
    /\ lastCacheOp = CacheOp("upsert_base", <<"a">>, "DA", "RU", 0, 0)
    /\ \E k \in TrainedReviews, up \in BOOLEAN :
          /\ cards = {Trained(NewCard(1, 1, Clock0), k, Clock0, up)}
          /\ reviews = [i \in 1..k |-> ReviewRow(1, Clock0, 5)]
    /\ nextCardId = 2
    /\ tnow = Clock0
    /\ trainerOps = 0
    /\ lastReview = NoReview
    /\ lastPick = NoPick
    /\ lastProgress = NoProgress
    /\ pickTx = NoTx

NextTrainer ==
    /\ trainerOps < MaxTrainerOps
    /\ UNCHANGED <<bookVars, audioVars, cacheOnlyVars, pickVars, translateVars>>
    /\ \/ \E card_id \in 1..2, grade \in 0..5, up \in BOOLEAN, lag \in 0..1 :
             ReviewTrainingCard(card_id, grade, up, lag)
       \/ \E card_id \in 1..3, grade \in {-1, 5, 6} : ReviewRejected(card_id, grade)
       \/ \E entry_id \in 1..2 : EnsureCardForEntry(entry_id)
       \/ \E entry_id \in 1..2 : MarkIgnore(entry_id)
       \/ Tick

\* the trainer is explored with the audio subsystem idle
SpecTrainer == InitTrainer /\ [][NextTrainer]_vars

\* the card after the reviews rs[lo..hi] have been applied to it in turn (the
\* first half is computed before the second is started; an update never
\* changes the id)
RECURSIVE ReplayRange(_, _, _, _)
ReplayRange(card, rs, lo, hi) ==
    IF lo > hi THEN card
    ELSE IF lo = hi
    THEN UpdateTrainingCardSrs(card, ComputeSrs(GetTrainingCard(card), rs[lo].grade,
                                                rs[lo].ts, TRUE), rs[lo].ts)
    ELSE LET mid  == (lo + hi) \div 2
             half == ReplayRange(card, rs, lo, mid)
         IN  IF half.id = card.id THEN ReplayRange(half, rs, mid + 1, hi) ELSE card

Replay(card, rs, n) == ReplayRange(card, rs, 1, n)

\* ---- decks the picker is explored from
MaxPickOps == 2

\* entries 1 (a, EN), 2 (a, DA), 3 (A, EN); the first was stored with the
\* detected language, with a sentence, or with nothing in detected_raw
PickEntries(det1) ==
    UpsertEntryRow(
        UpsertEntryRow(
            UpsertEntryRow({}, 1, <<"a">>, <<"b">>, "EN", "RU", det1, 1),
            2, <<"a">>, <<"b">>, "DA", "RU", LangCode("DA"), 2),
        3, <<"A">>, <<"b">>, "EN", "RU", LangCode("EN"), 2)

\* no context row, or two context rows of (a, EN) of which h2 is the newer
PickContexts ==
    {{},
     UpsertCtxRow(UpsertCtxRow({}, 1, <<"a">>, <<"b">>, "EN", "RU", "h1",
                               Sentence("h1"), 1),
                  2, <<"a">>, <<"b">>, "EN", "RU", "h2", Sentence("h2"), 2)}

\* a deck: for each entry no card, a new card made at Clock0, a new card made
\* the day before, or (entry 1) a card that failed one review at Clock0 and
\* is due the day after
Yesterday == TsAddDays(Clock0, -1)

CardChoices(entry_id) ==
    {"none", "now"} \cup (IF entry_id = 2 THEN {} ELSE {"yesterday"})
                    \cup (IF entry_id = 1 THEN {"failed"} ELSE {})

DeckCard(id, entry_id, choice) ==
    IF choice = "now" THEN NewCard(id, entry_id, Clock0)
    ELSE IF choice = "yesterday" THEN NewCard(id, entry_id, Yesterday)
    ELSE Replay(NewCard(id, entry_id, Yesterday), <<ReviewRow(id, Clock0, 1)>>, 1)

InitPick ==
    /\ InitAudio
    /\ playerAvail
    /\ InitBooks("y")
    /\ InitTranslateIdle
    /\ \E det1 \in {LangCode("EN"), Sentence("h1"), NoText} :
          entries = PickEntries(det1)
    /\ entries_ctx \in PickContexts
    /\ entry_translations = UpsertVariant({}, <<"a">>, <<"b">>, "EN", "RU", 1, 1)
    /\ nextEntryId = 4
    /\ nextCtxId = 3
    /\ cnow = 2
    /\ cacheOps = 0
    /\ lastCacheOp = CacheOp("none", <<>>, "", "", 0, 0)
    /\ \E ch \in [1..3 -> {"none", "now", "yesterday", "failed"}] :
          /\ \A i \in 1..3 : ch[i] \in CardChoices(i)
          /\ LET have   == {i \in 1..3 : ch[i] # "none"}
                 idOf(i) == Cardinality({j \in have : j <= i})
             IN  /\ cards = {DeckCard(idOf(i), i, ch[i]) : i \in have}
                 /\ nextCardId = Cardinality(have) + 1
                 /\ reviews = IF ch[1] = "failed"
                              THEN <<ReviewRow(idOf(1), Clock0, 1)>> ELSE <<>>
    /\ tnow = Clock0
    /\ trainerOps = 0
    /\ lastReview = NoReview
    /\ lastPick = NoPick
    /\ lastProgress = NoProgress
    /\ pickTx = NoTx

\* every trainer call; a step that is not a finished pick forgets the last
\* pick's outcome
NextPick ==
    /\ trainerOps < MaxPickOps
    /\ UNCHANGED <<bookVars, audioVars, cacheOnlyVars, translateVars>>
    /\ \/ /\ \E src_filter \in {"", "EN", "DA"}, exclude \in {{}, {1}},
                pick_new \in BOOLEAN :
                   PickTrainingWord(src_filter, exclude, pick_new)
          /\ UNCHANGED <<lastProgress, pickTx>>
       \/ \E src_filter \in {"", "DA"} : PickNewBegin(src_filter, {})
       \/ PickNewFinish
       \/ /\ \/ \E card_id \in 1..3, grade \in {1, 5}, up \in BOOLEAN :
                   ReviewTrainingCard(card_id, grade, up, 0)
             \/ \E entry_id \in 1..3 : EnsureCardForEntry(entry_id)
             \/ \E entry_id \in 1..3 : MarkIgnore(entry_id)
             \/ Tick
          /\ lastPick' = NoPick
          /\ UNCHANGED <<lastProgress, pickTx>>

\* the picker is explored with the audio subsystem idle
SpecPick == InitPick /\ [][NextPick]_vars

\* ---- decks with timestamps above 10^10
\* 1000 * t: the timestamp t in milliseconds
TsMs(t) == TS(1000 * t.d + (1000 * t.s) \div 86400, (1000 * t.s) % 86400)

\* card 1 of entry 1 whose stored due_at is above 10^10: a row written in
\* milliseconds, due at Clock0 or the day after, or the row the seventeenth
\* review graded 5 leaves (due_at 31609457524)
LegacyCard(choice) ==
    IF choice = "ms_now" THEN [NewCard(1, 1, Clock0) EXCEPT !.due_at = TsMs(Clock0)]
    ELSE IF choice = "ms_tomorrow"
    THEN [NewCard(1, 1, Clock0) EXCEPT !.due_at = TsMs(TsAddDays(Clock0, 1))]
    ELSE Trained(NewCard(1, 1, Clock0), 17, Clock0, TRUE)

InitLegacy ==
    /\ InitAudio
    /\ playerAvail
    /\ InitBooks("y")
    /\ InitTranslateIdle
    /\ entries = PickEntries(LangCode("EN"))
    /\ entries_ctx = {}
    /\ entry_translations = UpsertVariant({}, <<"a">>, <<"b">>, "EN", "RU", 1, 1)
    /\ nextEntryId = 4
    /\ nextCtxId = 3
    /\ cnow = 2
    /\ cacheOps = 0
    /\ lastCacheOp = CacheOp("none", <<>>, "", "", 0, 0)
    /\ \E ch1 \in {"ms_now", "ms_tomorrow", "k17"}, ch3 \in CardChoices(3) :
          /\ cards = {LegacyCard(ch1)}
                       \cup (IF ch3 = "none" THEN {} ELSE {DeckCard(2, 3, ch3)})
          /\ nextCardId = IF ch3 = "none" THEN 2 ELSE 3
          /\ reviews = IF ch1 = "k17" THEN [i \in 1..17 |-> ReviewRow(1, Clock0, 5)]
                       ELSE <<>>
    /\ tnow = Clock0
    /\ trainerOps = 0
    /\ lastReview = NoReview
    /\ lastPick = NoPick
    /\ lastProgress = NoProgress
    /\ pickTx = NoTx

SpecLegacy == InitLegacy /\ [][NextPick]_vars

\* ---- review logs get_progress is explored from
MaxProgressOps == 2

\* how many days before today the short logs reach
ProgressWindow == 3

\* one failed review of card 1 on each day of ds (days of lo..hi), oldest
\* first, and a second review on the last of them if twice
LogOfDays(ds, lo, hi, twice) ==
    LET InDs(r) == r.day \in ds
        log == SelectSeq([i \in 1..(hi - lo + 1) |->
                             ReviewRow(1, TS(lo + i - 1, Clock0.s), 1)], InDs)
    IN  IF twice /\ log # <<>> THEN Append(log, log[Len(log)]) ELSE log

\* the short logs, and a review on each of the last n days for n around the
\* number of days _list_active_days_desc_conn returns
ProgressLogs ==
    {LogOfDays(ds, Clock0.d - ProgressWindow, Clock0.d, twice) :
        ds \in SUBSET ((Clock0.d - ProgressWindow)..Clock0.d), twice \in BOOLEAN}
    \cup {LogOfDays((Clock0.d - n + 1)..Clock0.d, Clock0.d - n + 1, Clock0.d, FALSE) :
             n \in (ACTIVE_DAYS_LIMIT - 1)..(ACTIVE_DAYS_LIMIT + 1)}

\* entry 1 and its card, reviewed as the log says
InitProgress ==
    /\ InitAudio
    /\ playerAvail
    /\ InitBooks("y")
    /\ InitTranslateIdle
    /\ entries = UpsertEntryRow({}, 1, <<"a">>, <<"b">>, "EN", "RU", LangCode("EN"), 1)
    /\ entries_ctx = {}
    /\ entry_translations = UpsertVariant({}, <<"a">>, <<"b">>, "EN", "RU", 1, 1)
    /\ nextEntryId = 2
    /\ nextCtxId = 1
    /\ cnow = 1
    /\ cacheOps = 0
    /\ lastCacheOp = CacheOp("none", <<>>, "", "", 0, 0)
    /\ reviews \in ProgressLogs
    /\ cards = {Replay(NewCard(1, 1, IF reviews = <<>> THEN Clock0 ELSE reviews[1].ts),
                       reviews, Len(reviews))}
    /\ nextCardId = 2
    /\ tnow = Clock0
    /\ trainerOps = 0
    /\ lastReview = NoReview
    /\ lastPick = NoPick
    /\ lastProgress = NoProgress
    /\ pickTx = NoTx

NextProgress ==
    /\ trainerOps < MaxProgressOps
    /\ UNCHANGED <<bookVars, audioVars, cacheOnlyVars, translateVars>>
    /\ \/ Progress
       \/ /\ \/ \E grade \in {1, 5}, up \in BOOLEAN : ReviewTrainingCard(1, grade, up, 0)
             \/ Tick
          /\ lastPick' = NoPick
          /\ lastProgress' = NoProgress
          /\ pickTx' = pickTx

\* get_progress is explored with the audio subsystem idle
SpecProgress == InitProgress /\ [][NextProgress]_vars

Init == InitAudio /\ InitCache /\ InitTrainerEmpty /\ InitTranslateIdle /\ InitBooks("y")

\* the cache is explored with the audio subsystem idle
InitIdle == Init /\ playerAvail

SpecAudio == Init /\ [][NextAudio /\ UNCHANGED <<cacheVars, trainerVars, pickVars, translateVars, bookVars>>]_vars

\* the worker is a daemon thread that keeps running once started
FairSpecAudio == SpecAudio /\ WF_vars(WorkerStep /\ UNCHANGED <<cacheVars, trainerVars, pickVars, translateVars, bookVars>>)

\* base cache and variants: all terms, translations and languages, one context.
\* TranslationService.translate_word writes the cache only through these
\* repository calls, each in a transaction of its own, so every sequence or
\* interleaving of translate_word calls is a sequence of these actions.
NextCache ==
    /\ cacheOps < MaxCacheOps
    /\ UNCHANGED <<bookVars, audioVars, trainerVars, pickVars, translateVars>>
    /\ \E now \in Nows :
        \/ \E term \in Terms, tr \in Translations, src \in SrcLangs, dst \in DstLangs,
              context \in {NoText, Sentence("h1")} :
              UpsertBaseEntry(term, tr, src, dst, LangCode(src), context, now)
        \/ \E id \in 1..MaxCacheOps : TouchBaseUsage(id, now)
        \/ \E term \in Terms, tr \in Translations, src \in SrcLangs, dst \in DstLangs :
              UpsertCtxEntry(term, tr, src, dst, "h1", Sentence("h1"), now)

SpecCache == InitIdle /\ [][NextCache]_vars

\* context cache: one term and translation; every context under EN, and one
\* context under DA so that a second key is populated
CtxInputs == {<<"EN", h>> : h \in CtxHashes} \cup {<<"DA", "h1">>}

NextCtx ==
    /\ cacheOps < MaxCtxOps
    /\ UNCHANGED <<bookVars, audioVars, trainerVars, pickVars, translateVars>>
    /\ \E now \in Nows, in \in CtxInputs :
        \/ UpsertCtxEntry(<<"a">>, <<"b">>, in[1], "RU", in[2], Sentence(in[2]), now)
        \/ TouchCtxUsage(<<"a">>, in[1], "RU", in[2], now)

SpecCtx == InitIdle /\ [][NextCtx]_vars

\* the context cache after upsert_ctx_entry was called at second 1 for three
\* contexts of the EN key and one of the DA key
InitThreeContexts ==
    /\ InitAudio
    /\ playerAvail
    /\ InitBooks("y")
    /\ InitTrainerEmpty
    /\ InitTranslateIdle
    /\ entries = {}
    /\ entries_ctx =
           UpsertCtxRow(
               UpsertCtxRow(
                   UpsertCtxRow(
                       UpsertCtxRow({}, 1, <<"a">>, <<"b">>, "EN", "RU", "h1",
                                    Sentence("h1"), 1),
                       2, <<"a">>, <<"b">>, "EN", "RU", "h2", Sentence("h2"), 1),
                   3, <<"a">>, <<"b">>, "DA", "RU", "h1", Sentence("h1"), 1),
               4, <<"a">>, <<"b">>, "EN", "RU", "h3", Sentence("h3"), 1)
    /\ entry_translations = UpsertVariant({}, <<"a">>, <<"b">>, "EN", "RU", 1, 1)
    /\ nextEntryId = 1
    /\ nextCtxId = 5
    /\ cnow = 1
    /\ cacheOps = 0
    /\ lastCacheOp = CacheOp("none", <<>>, "", "", 0, 0)

SpecLru == InitThreeContexts /\ [][NextCtx]_vars

\* ---- translate_word: overlapping requests for one word, without a context
\* or with one sentence (given with a doubled space)
TranslateContexts == {NoText, <<"s", " ", " ", "h1">>}

\* what deepl_call answers: (translation, detected language)
ProviderAnswers ==
    {[tr |-> <<"b">>, detected |-> LangCode("EN")],
     [tr |-> <<"c">>, detected |-> LangCode("DA")]}

ProviderErrors == {"quota"}

NextTranslate ==
    \/ \E c \in Callers, word \in {<<"a">>}, src_hint \in {"", "DA"},
          context \in TranslateContexts :
            /\ twCalls < MaxTranslateCalls
            /\ TwStart(c, word, "RU", src_hint, context, cnow)
    \/ \E c \in Callers : TwTouch(c)
    \/ \E c \in Callers : TwHitBaseGet(c)
    \/ \E c \in Callers : TwHitUpsert(c)
    \/ \E c \in Callers, err \in ProviderErrors : TwProviderError(c, err)
    \/ \E c \in Callers : TwMissUpsertCtx(c)
    \/ \E c \in Callers : TwMissList(c)
    \/ \E c \in Callers : TwMwGet(c)
    \/ \E c \in Callers : TwHitList(c)
    \/ \E c \in Callers, a \in ProviderAnswers : TwProviderOk(c, a.tr, a.detected)
    \/ \E c \in Callers, defs \in MwFetched : TwMwFetch(c, defs)
    \/ \E aid \in PREFETCH_INFLIGHT, ok \in BOOLEAN : PrefetchRun(aid, ok)

\* the caches to start from: an empty one; one that holds a row written by
\* db_upsert_entry_ctx of deepl_helper.py (no ctx_text, no base entry beside
\* it); and the ones an earlier base-mode call for the word left, which missed,
\* was answered and got no MW definitions, or got definitions (at second 0)
\* whose main entry names no audio while another entry of the response does
StoredBefore ==
    {[entries |-> {}, entries_ctx |-> {}, twStored |-> {}, mw |-> {}],
     [entries |-> {},
      entries_ctx |->
          {[id |-> 1, term |-> <<"a">>, translation |-> <<"b">>, src_lang |-> "EN",
            dst_lang |-> "RU", ctx_hash |-> "h1", ctx_text |-> NoText,
            created_at |-> 1, last_used |-> 1, count |-> 1]},
      twStored |-> {}, mw |-> {}],
     [entries |-> UpsertEntryRow({}, 1, <<"a">>, <<"b">>, "EN", "RU", LangCode("EN"), 1),
      entries_ctx |-> {},
      twStored |-> {[word |-> <<"a">>, target |-> "RU", h |-> ""]}, mw |-> {}],
     [entries |-> UpsertEntryRow({}, 1, <<"a">>, <<"b">>, "EN", "RU", LangCode("EN"), 1),
      entries_ctx |-> {},
      twStored |-> {[word |-> <<"a">>, target |-> "RU", h |-> ""]},
      mw |-> {[NoDefs EXCEPT !.term = <<"a">>, !.src_lang = "EN", !.defs = "d",
                             !.raw_audio = "au"]}]}

InitTranslate ==
    /\ InitAudio
    /\ playerAvail
    /\ InitBooks("y")
    /\ InitTrainerEmpty
    /\ \E st \in StoredBefore :
          /\ entries = st.entries
          /\ entries_ctx = st.entries_ctx
          /\ twStored = st.twStored
          /\ mw_definitions = st.mw
    /\ entry_translations =
           {[term |-> e.term, translation |-> e.translation, src_lang |-> e.src_lang,
             dst_lang |-> e.dst_lang, created_at |-> e.created_at,
             last_used |-> e.last_used, count |-> 1] : e \in entries}
    /\ nextEntryId = Cardinality(entries) + 1
    /\ nextCtxId = Cardinality(entries_ctx) + 1
    /\ tw = [c \in Callers |-> IdleCall]
    /\ twCalls = 0
    /\ lastTranslate = NoTranslate
    /\ PREFETCH_INFLIGHT = {}
    /\ audioFiles = EmptyCacheDir
    /\ dl = [d \in Downloaders |-> IdleDownload]
    /\ cnow = 1
    /\ cacheOps = 0
    /\ lastCacheOp = CacheOp("none", <<>>, "", "", 0, 0)

SpecTranslate == InitTranslate /\ [][NextTranslate]_vars

\* ---- translate_word: one caller, a request a second, four sentences of one
\* Danish word (given with a doubled space), two of them translated before
MaxCtxCalls == 5

\* the provider's translation of the word in sentence h
SentenceAnswer(h) == IF h \in {"h1", "h2"} THEN <<"c">> ELSE <<"b">>

InitTranslateCtx ==
    /\ InitAudio
    /\ playerAvail
    /\ InitBooks("y")
    /\ InitTrainerEmpty
    /\ InitTranslateIdle
    /\ entries = UpsertEntryRow({}, 1, <<"a">>, <<"b">>, "DA", "RU", Sentence("h3"), 1)
    /\ entries_ctx =
           UpsertCtxRow(UpsertCtxRow({}, 1, <<"a">>, <<"b">>, "DA", "RU", "h3",
                                     Sentence("h3"), 1),
                        2, <<"a">>, <<"b">>, "DA", "RU", "h4", Sentence("h4"), 1)
    /\ entry_translations =
           UpsertVariant(UpsertVariant({}, <<"a">>, <<"b">>, "DA", "RU", 1, 1),
                         <<"a">>, <<"b">>, "DA", "RU", 1, 1)
    /\ nextEntryId = 2
    /\ nextCtxId = 3
    /\ cnow = 1
    /\ cacheOps = 0
    /\ lastCacheOp = CacheOp("none", <<>>, "", "", 0, 0)

NextTranslateCtx ==
    \/ \E h \in CtxHashes :
          /\ twCalls < MaxCtxCalls
          /\ TwStart(1, <<"a">>, "RU", "DA", <<"s", " ", " ", h>>, cnow + 1)
    \/ TwTouch(1)
    \/ TwHitBaseGet(1)
    \/ \E err \in ProviderErrors : TwProviderError(1, err)
    \/ TwProviderOk(1, SentenceAnswer(tw[1].h), LangCode("DA"))
    \/ TwMissUpsertCtx(1)
    \/ TwMissList(1)
    \/ TwMwGet(1)
    \/ TwHitList(1)

SpecTranslateCtx == InitTranslateCtx /\ [][NextTranslateCtx]_vars

\* bookmark requests and file moves, one at a time
NextBooks ==
    /\ bookOps < MaxBookOps
    /\ UNCHANGED <<audioVars, cacheVars, trainerVars, pickVars, translateVars>>
    /\ \/ \E path \in {"a", "b", "la"}, col \in 1..2 : UpsertMark(path, 1, col, "f2", "t")
       \/ \E path \in BookPaths \cup {"la"} : ListMarksForPath(path)
       \/ \E p, q \in BookPaths : MoveFile(p, q)
       \/ \E p, q \in BookPaths : CopyFile(p, q)

\* the second file is a copy of the book or another book
InitBookshelf ==
    /\ InitAudio
    /\ playerAvail
    /\ InitCache
    /\ InitTrainerEmpty
    /\ InitTranslateIdle
    /\ \E second \in {"x", "y"} : InitBooks(second)

SpecBooks == InitBookshelf /\ [][NextBooks]_vars

\* prefetches and audio routes served by concurrent threads
NextDownload ==
    \/ \E d \in Downloaders, aid \in AudioIds : PrefetchStart(d, aid)
    \/ \E d \in Downloaders, aid \in AudioIds : MwAudioPlay(d, aid)
    \/ \E d \in Downloaders : DlCheckHit(d)
    \/ \E d \in Downloaders, ok \in BOOLEAN : DlFetch(d, ok)
    \/ \E d \in Downloaders : DlOpenTmp(d)
    \/ \E d \in Downloaders : DlWrite(d)
    \/ \E d \in Downloaders : DlReplace(d)
    \/ \E d \in Downloaders : DlCleanup(d)
    \/ \E d \in Downloaders : DlReturn(d)

SpecDownload == Init /\ [][NextDownload]_vars

\* the steps of thread d from the call of ensure_mw_audio_cached to its return
DownloadStep(d) ==
    \/ DlCheckHit(d)
    \/ \E ok \in BOOLEAN : DlFetch(d, ok)
    \/ DlOpenTmp(d)
    \/ DlWrite(d)
    \/ DlReplace(d)
    \/ DlCleanup(d)
    \/ DlReturn(d)

\* a started thread keeps being scheduled, and none of its steps blocks for
\* ever: urlopen is called with timeout=15 and the other steps are local file
\* operations
FairSpecDownload == SpecDownload /\ \A d \in Downloaders : WF_vars(DownloadStep(d))

Next ==
    \/ NextAudio /\ UNCHANGED <<cacheVars, trainerVars, pickVars, translateVars, bookVars>>
    \/ NextCache
    \/ NextCtx
    \/ NextTrainer
    \/ NextPick
    \/ NextProgress
    \/ NextTranslate
    \/ NextTranslateCtx
    \/ NextDownload
    \/ NextBooks

Spec == Init /\ [][Next]_vars

(***************************************************************************)
(*                           CLAIMS                                        *)
(***************************************************************************)

\* C1: in every reachable state at most one playback child process spawned by
\* the worker is alive.
C1_AtMostOneAlive == Cardinality(AliveProcs) <= 1

\* C1 witness: a second playback is alive after an earlier one has ended and a
\* newer request is already waiting.
C1_Witness ==
    /\ Len(procs) >= 2
    /\ AliveProcs # {}
    /\ PENDING_REQ # NoReq

\* C2: any new play request cancels the current playback immediately: whenever a
\* playback child of an earlier request is running and a newer request has been
\* published, the worker's next step signals that process group because of the
\* new request (it does not first wait for the playback to end on its own or
\* for the 10 s playback timeout).
C2_NewRequestCancelsImmediately ==
    \A k \in AliveProcs :
        procs[k].token # PLAY_TOKEN
            => ENABLED (WorkerStep /\ ~procs'[k].alive /\ procs'[k].end = "cancel")

\* C3: no starvation, newest wins.  Safety: a request overwritten while pending
\* is never played.  Liveness (fair worker): the most recently published
\* request is eventually consumed and its file played, unless a later request
\* arrives or no player can be executed when the worker spawns it.
C3_NewestWins ==
    /\ [](\A k \in 1..Len(procs) : procs[k].token \notin superseded)
    /\ \A t \in 1..MaxToken :
          (PLAY_TOKEN = t)
              ~> \/ PLAY_TOKEN # t
                 \/ t \in spawnFailed
                 \/ \E k \in 1..Len(procs) :
                        procs[k].token = t /\ procs[k].file = requested[t]

\* C3 witness: a request was overwritten while pending and the newest request
\* has been played.
C3_Witness ==
    /\ superseded # {}
    /\ \E k \in 1..Len(procs) : procs[k].token = PLAY_TOKEN /\ procs[k].token > 1

\* C4: after any upsert_ctx_entry(term, src_lang, dst_lang, ctx_hash) at most
\* three context rows exist for that (term, src_lang, dst_lang), and the row
\* with the just-upserted ctx_hash is one of them.
C4_AtMostThreeCtxRows ==
    lastCacheOp.op = "upsert_ctx" =>
        LET rows == {c \in entries_ctx :
                        /\ c.term = lastCacheOp.term
                        /\ c.src_lang = lastCacheOp.src
                        /\ c.dst_lang = lastCacheOp.dst}
        IN  /\ Cardinality(rows) <= 3
            /\ \E c \in rows : c.ctx_hash = lastCacheOp.h

\* C4 witness: a fourth distinct context has just been upserted for the EN key;
\* a row was evicted and three remain.
C4_Witness ==
    /\ lastCacheOp.op = "upsert_ctx"
    /\ lastCacheOp.src = "EN"
    /\ nextCtxId = 5
    /\ \A c \in entries_ctx : c.src_lang = "EN"
    /\ Cardinality(entries_ctx) = 3

\* C5: at most one base entry row exists for each (term, src_lang, dst_lang).
C5_OneBaseRowPerKey ==
    \A e1 \in entries : \A e2 \in entries :
        (e1.term = e2.term /\ e1.src_lang = e2.src_lang /\ e1.dst_lang = e2.dst_lang)
            => e1 = e2

\* C5 witness: upsert_base_entry has just been called for a key that was
\* already cached (its row has been counted twice) while another key exists.
C5_Witness ==
    /\ lastCacheOp.op = "upsert_base"
    /\ Cardinality(entries) = 1
    /\ \E e \in entries :
          /\ e.term = lastCacheOp.term
          /\ e.src_lang = lastCacheOp.src
          /\ e.count = 2

\* C6: no translation variant row exists whose normalized translation (trimmed,
\* whitespace collapsed, trailing punctuation stripped), case-folded, equals its
\* term case-folded.
C6_NoVariantEqualToTerm ==
    \A v \in entry_translations :
        Casefold(NormTranslation(v.translation)) # Casefold(v.term)

\* C7: review_training_card stores the SM-2 result.  With q = 5 - g the ease
\* factor moves by 0.1 - q * (0.08 + q * 0.02), i.e. by +0.10, 0, -0.14, -0.32,
\* -0.54, -0.80 for g = 5..0, and is floored at 1.3.  For g < 3: lapses + 1,
\* reps = 0, interval_days = 1, wrong_streak + 1, correct_streak = 0.  Otherwise
\* reps + 1, interval_days = 1 if the new reps <= 1, 3 if it is 2, else
\* max(1, round(prev_interval * ef)) with prev_interval = max(1, interval_days),
\* correct_streak + 1, wrong_streak = 0.  last_grade = g.
C7_ReviewStoresSm2 ==
    lastReview.ok =>
        LET pre   == lastReview.pre
            g     == lastReview.grade
            post  == CHOOSE c \in cards : c.id = lastReview.card_id
            delta == CASE g = 5 -> 10 [] g = 4 -> 0 [] g = 3 -> -14
                       [] g = 2 -> -32 [] g = 1 -> -54 [] g = 0 -> -80
            efExp == IF pre.ef + delta > 130 THEN pre.ef + delta ELSE 130
            prev  == IF pre.interval_days > 1 THEN pre.interval_days ELSE 1
            \* 100 * interval - prev * efExp, computed without overflow
            diff  == 100 * (post.interval_days - (prev \div 100) * efExp)
                     - (prev % 100) * efExp
        IN  /\ post.ef = efExp
            /\ post.last_grade = g
            /\ g < 3 =>
                  /\ post.lapses = pre.lapses + 1
                  /\ post.reps = 0
                  /\ post.interval_days = 1
                  /\ post.wrong_streak = pre.wrong_streak + 1
                  /\ post.correct_streak = 0
            /\ g >= 3 =>
                  /\ post.reps = pre.reps + 1
                  /\ post.correct_streak = pre.correct_streak + 1
                  /\ post.wrong_streak = 0
                  /\ post.reps <= 1 => post.interval_days = 1
                  /\ post.reps = 2 => post.interval_days = 3
                  /\ post.reps > 2 => /\ post.interval_days >= 1
                                      /\ diff >= -50
                                      /\ diff <= 50

\* C7 witness: a card with two repetitions has just been graded 3, so the
\* interval is the rounded product with the lowered ease factor.
C7_Witness ==
    /\ lastReview.ok
    /\ lastReview.grade = 3
    /\ lastReview.pre.reps = 2
    /\ lastReview.pre.interval_days = 3
    /\ \E c \in cards : c.id = lastReview.card_id /\ c.reps = 3 /\ c.interval_days = 8

\* C8: after every successful review_training_card at time now the stored card
\* has last_review_at = now and due_at - last_review_at = interval_days * 86400.
C8_DueIsLastReviewPlusInterval ==
    lastReview.ok =>
        \A c \in cards : c.id = lastReview.card_id =>
            /\ c.last_review_at = lastReview.now
            /\ c.due_at = [d |-> c.last_review_at.d + c.interval_days,
                           s |-> c.last_review_at.s]

\* C9: every stored training card has due_at and last_review_at in seconds,
\* strictly below 10^10 (= 115740 days and 64000 seconds).
C9_TimestampsBelowTenPow10 ==
    \A c \in cards :
        /\ c.due_at.d < 115740 \/ (c.due_at.d = 115740 /\ c.due_at.s < 64000)
        /\ c.last_review_at.d < 115740
              \/ (c.last_review_at.d = 115740 /\ c.last_review_at.s < 64000)

\* C10: every successful review_training_card increments the count of the entry
\* that owns the card by exactly 1 and sets its last_used to the review time;
\* all other entries are unchanged.
C10_ReviewBumpsOwningEntry ==
    lastReview.ok =>
        /\ {e.id : e \in entries} = {b.id : b \in lastReview.entriesBefore}
        /\ \A e \in entries : \A b \in lastReview.entriesBefore :
              e.id = b.id =>
                  IF e.id = lastReview.pre.entry_id
                  THEN /\ e.count = b.count + 1
                       /\ e.last_used = 86400 * lastReview.now.d + lastReview.now.s
                       /\ [e EXCEPT !.count = b.count, !.last_used = b.last_used] = b
                  ELSE e = b


C12_ProgressCountsAndStreak ==
    LET today   == lastProgress.day
        days    == {reviews[i].day : i \in 1..Len(reviews)}
        Run(k)  == \A j \in 0..(k - 1) : (today - j) \in days
    IN  lastProgress # NoProgress =>
            /\ lastProgress.today_done =
                   Cardinality({i \in 1..Len(reviews) : reviews[i].day = today})
            /\ Run(lastProgress.streak_days)
            /\ ~Run(lastProgress.streak_days + 1)

\* C13: when the call finds at least one eligible due card (not suspended,
\* due_at <= now, entry not ignored, entry language in the language set - the
\* filter if given, EN and DA otherwise - and not excluded), it returns mode
\* "srs_due" with an eligible card that no other eligible card precedes in
\* the order due_at ascending, lapses descending, wrong_streak descending.
C13_DueCardFirst ==
    LET langs == IF lastPick.src_filter # "" THEN {lastPick.src_filter}
                 ELSE {"EN", "DA"}
        elig  == {c \in lastPick.cardsBefore :
                     /\ c.suspended = 0
                     /\ ~TsLess(lastPick.now, c.due_at)
                     /\ c.id \notin lastPick.exclude
                     /\ \E e \in lastPick.entriesBefore :
                            /\ e.id = c.entry_id
                            /\ e.ignore = 0
                            /\ e.src_lang \in langs}
        Precedes(c, d) ==
            \/ TsLess(c.due_at, d.due_at)
            \/ c.due_at = d.due_at /\ c.lapses > d.lapses
            \/ c.due_at = d.due_at /\ c.lapses = d.lapses
                                   /\ c.wrong_streak > d.wrong_streak
    IN  (lastPick.called /\ elig # {}) =>
            /\ ~lastPick.raised
            /\ lastPick.item.mode = "srs_due"
            /\ \E c \in elig : /\ c.id = lastPick.item.card_id
                               /\ \A d \in elig : ~Precedes(d, c)

\* C14: in every item a pick returns, context_raw and detected_raw are
\* reconciled: when the entry has exactly one of a stored context text and a
\* detected_raw, both keys of the item carry that one; in particular a sentence
\* stored in detected_raw of an entry without context row comes back as
\* context_raw.
C14_ContextKeysReconciled ==
    (lastPick.called /\ ~lastPick.raised) =>
        \E e \in lastPick.entriesBefore :
            /\ e.id = lastPick.item.entry_id
            /\ LET ctx == ContextRawOf(e, entries_ctx)
                   det == e.detected_raw
                   it  == lastPick.item
               IN  /\ (ctx = NoText /\ det # NoText) =>
                          (it.context_raw = det /\ it.detected_raw = det)
                   /\ (det = NoText /\ ctx # NoText) =>
                          (it.detected_raw = ctx /\ it.context_raw = ctx)
                   /\ (ctx # NoText /\ det # NoText) =>
                          (it.context_raw = ctx /\ it.detected_raw = det)
                   /\ (it.context_raw = NoText) <=> (it.detected_raw = NoText)

\* an entry that holds a sentence in detected_raw and has no context row was
\* picked, and the sentence is the item's context_raw
C14_Witness ==
    /\ lastPick.called
    /\ ~lastPick.raised
    /\ entries_ctx = {}
    /\ \E e \in lastPick.entriesBefore :
          /\ e.id = lastPick.item.entry_id
          /\ e.detected_raw = Sentence("h1")
    /\ lastPick.item.context_raw = Sentence("h1")

\* C15: a pick always produces a result.  It returns without raising, and
\* when the state it reads has a non-ignored entry in the language set, the
\* item's mode is one of srs_due, srs_new, srs_hard, fallback and its card_id
\* is the id of an existing card of the returned entry.  (The item with error
\* set, for a state without such an entry, would come from the fallback
\* section.)
C15_PickAlwaysReturns ==
    LET langs == IF lastPick.src_filter # "" THEN {lastPick.src_filter}
                 ELSE {"EN", "DA"}
        have  == \E e \in lastPick.entriesBefore :
                     e.ignore = 0 /\ e.src_lang \in langs
    IN  lastPick.called =>
            /\ ~lastPick.raised
            /\ have =>
                  /\ lastPick.item.mode \in {"srs_due", "srs_new", "srs_hard", "fallback"}
                  /\ \E c \in cards : /\ c.id = lastPick.item.card_id
                                      /\ c.entry_id = lastPick.item.entry_id

\* C16: whatever picks and ensure calls have run, one after the other or
\* overlapping, no entry has two training cards; and a pick that returns an
\* item returns the id of the one card of the item's entry.
C16_OneCardPerEntry ==
    /\ \A c, d \in cards : c.entry_id = d.entry_id => c.id = d.id
    /\ (lastPick.called /\ ~lastPick.raised) =>
           \A c \in cards : c.entry_id = lastPick.item.entry_id
                                => c.id = lastPick.item.card_id

\* a pick went to insert a card for an entry that another call had given a
\* card meanwhile, and inserted nothing
C16_Witness ==
    /\ lastPick.error = "OperationalError"
    /\ cards = lastPick.cardsBefore
    /\ \E c \in cards : c.entry_id = lastPick.wanted

\* C17: a base-mode translate_word that starts after a base-mode miss for the
\* same word and target was stored does not call the provider, returns
\* from_cache = TRUE and cache_source = "base", and returns the count the
\* entry holds once the call has added 1 to it.
C17_BaseHitReturnsStoredCount ==
    (/\ lastTranslate.called
     /\ lastTranslate.req.ctx_text = NoText
     /\ lastTranslate.req.after_miss)
    => /\ ~lastTranslate.req.provider
       /\ lastTranslate.from_cache
       /\ lastTranslate.cache_source = "base"
       /\ lastTranslate.count = lastTranslate.req.stored_count

\* C18 as stated: a context-mode translate_word that starts after a
\* context-mode miss for the same word, target and context was stored does
\* not call the provider and returns from_cache = TRUE, cache_source =
\* "context", the whitespace-normalized context as context_raw, and the
\* translation the first call stored among ctx_translations.
C18_CtxHitAfterMiss ==
    (/\ lastTranslate.called
     /\ lastTranslate.req.ctx_text # NoText
     /\ lastTranslate.req.after_miss)
    => /\ ~lastTranslate.req.provider
       /\ lastTranslate.from_cache
       /\ lastTranslate.cache_source = "context"
       /\ lastTranslate.context_raw = Strip(CollapseWs(lastTranslate.req.context))
       /\ SentenceAnswer(lastTranslate.req.h) \in lastTranslate.ctx_translations

\* C18 (amended): only the three most recently used contexts of a word and
\* language pair are kept.  A context-mode translate_word that starts after a
\* context-mode miss for the same word, target and context was stored, and
\* while an entry for that context is stored, does not call the provider and
\* returns from_cache = TRUE, cache_source = "context" and the
\* whitespace-normalized context as context_raw; its ctx_translations hold the
\* translation the first call stored if the entry is still stored when the
\* alternatives are read.
C18_CtxHitWhileStored ==
    (/\ lastTranslate.called
     /\ lastTranslate.req.ctx_text # NoText
     /\ lastTranslate.req.after_miss
     /\ lastTranslate.req.stored)
    => /\ ~lastTranslate.req.provider
       /\ lastTranslate.from_cache
       /\ lastTranslate.cache_source = "context"
       /\ lastTranslate.context_raw = Strip(CollapseWs(lastTranslate.req.context))
       /\ lastTranslate.req.kept
              => SentenceAnswer(lastTranslate.req.h) \in lastTranslate.ctx_translations

\* a sentence translated before is asked again while its entry is stored, and
\* is answered from the context cache
C18_Witness ==
    /\ lastTranslate.called
    /\ lastTranslate.req.after_miss
    /\ lastTranslate.req.stored
    /\ lastTranslate.cache_source = "context"
    /\ lastTranslate.req.context # lastTranslate.context_raw
    /\ lastTranslate.text \in lastTranslate.ctx_translations

\* C19: when the provider returns an error, in base mode or context mode,
\* translate_word returns empty text, the provider's message, from_cache =
\* FALSE and count = 0, and neither its lookup nor its return creates or
\* changes a row of entries, entries_ctx, entry_translations or mw_definitions.
C19_ProviderErrorWritesNothing ==
    [][/\ \A c \in Callers :
              tw[c].pc = "idle" /\ tw'[c].pc = "call"
              => UNCHANGED <<entries, entries_ctx, entry_translations, mw_definitions>>
       /\ (lastTranslate'.called /\ lastTranslate'.error # "")
          => /\ UNCHANGED <<entries, entries_ctx, entry_translations, mw_definitions>>
             /\ tw[lastTranslate'.caller].pc = "call"
             /\ lastTranslate'.error \in ProviderErrors
             /\ lastTranslate'.text = NoText
             /\ ~lastTranslate'.from_cache
             /\ lastTranslate'.count = 0]_vars

\* the provider failed for a sentence of a word whose base entry is cached
C19_Witness ==
    /\ lastTranslate.called
    /\ lastTranslate.error \in ProviderErrors
    /\ lastTranslate.req.ctx_text # NoText
    /\ lastTranslate.text = NoText
    /\ entries # {}

\* C20: whatever the cache held, after upsert_base_entry(term, T, src, dst)
\* get_base_entry_any_src(term, dst, src) returns an entry whose translation
\* is T, and an entry that already had the key (term, src, dst) has its count
\* increased by exactly 1.
C20_UpsertThenGet ==
    [][(lastCacheOp'.op = "upsert_base" /\ cacheOps' = cacheOps + 1)
       => LET o == lastCacheOp'
          IN  /\ GetBaseEntryAnySrc(entries', o.term, o.dst, o.src) # {}
              /\ \A r \in GetBaseEntryAnySrc(entries', o.term, o.dst, o.src) :
                     r.translation = o.tr
              /\ \A e \in entries :
                     SameKey(e, o.term, o.src, o.dst)
                     => \E x \in entries' : x.id = e.id /\ x.count = e.count + 1]_vars

\* C21: once mw_definitions holds a row for (term, "EN"), the empty buckets of
\* a suggestion list included, a call of _ensure_mw_definitions for the term
\* does not go to mw_fetch and returns the buckets of the row; and no step
\* changes the created_at of a row.
C21_EnsureDefinitionsIdempotent ==
    [][/\ \A m \in mw_definitions :
              \E x \in mw_definitions' :
                  x.term = m.term /\ x.src_lang = m.src_lang /\ x.created_at = m.created_at
       /\ \A c \in Callers :
              LET cached == GetMwDefinitions(mw_definitions, tw[c].word, "EN")
                  got    == IF tw'[c].pc = "hit_list" THEN tw'[c].mw
                            ELSE lastTranslate'.mw_definitions
              IN  (/\ tw[c].pc = "mw"
                   /\ tw'[c].pc # "mw"
                   /\ tw[c].mwsrc = "EN"
                   /\ cached # NoDefs)
                  => /\ tw'[c].pc # "mw_fetch"
                     /\ got.defs = cached.defs
                     /\ got.created_at = cached.created_at
                     /\ got = GetMwDefinitions(mw_definitions', tw[c].word, "EN")]_vars

\* a call found the empty buckets cached for a suggestion list and returned them
C21_Witness ==
    /\ lastTranslate.called
    /\ lastTranslate.mw_definitions.defs = "empty"
    /\ ~lastTranslate.req.fetched

\* C22: review_training_card with a grade outside 0..5, with a card_id that
\* has no card, or on a suspended card raises an error and leaves the
\* training cards, the review log and the entries as they were; and a call
\* with such arguments is never carried out.
C22_RejectedReviewChangesNothing ==
    [][/\ lastReview'.error # ""
          => /\ UNCHANGED <<cards, reviews, entries>>
             /\ \/ lastReview'.grade \notin 0..5
                \/ ~\E c \in cards : c.id = lastReview'.card_id
                \/ \E c \in cards : c.id = lastReview'.card_id /\ c.suspended = 1
       /\ lastReview'.ok
          => /\ lastReview'.grade \in 0..5
             /\ \E c \in cards : /\ c.id = lastReview'.card_id
                                 /\ c.suspended # 1]_vars

\* a review of a suspended card was rejected after an earlier review was logged
C22_Witness ==
    /\ lastReview.error = "ValueError"
    /\ lastReview.grade \in 0..5
    /\ \E c \in cards : c.id = lastReview.card_id /\ c.suspended = 1
    /\ reviews # <<>>


\* C23: the review log is append-only.  Every successful review appends
\* exactly one row holding the card, the review time, the grade and the date
\* of the review time; a rejected review and every other operation leave the
\* log as it is, so no row is ever modified or deleted.
C23_ReviewLogAppendOnly ==
    [][/\ Len(reviews') >= Len(reviews)
       /\ \A i \in 1..Len(reviews) : reviews'[i] = reviews[i]
       /\ IF lastReview'.ok
          THEN reviews' = Append(reviews, [card_id |-> lastReview'.card_id,
                                           ts      |-> tnow,
                                           grade   |-> lastReview'.grade,
                                           day     |-> tnow.d])
          ELSE reviews' = reviews]_vars

\* a card reviewed again on a later day: the log holds the earlier rows and
\* the new one
C23_Witness ==
    /\ lastReview.ok
    /\ Len(reviews) >= 3
    /\ reviews[Len(reviews)].day > reviews[1].day
    /\ reviews[Len(reviews)].card_id = lastReview.card_id


\* C24 (as stated): double-play.  A play request that is not superseded causes
\* exactly two playbacks of its file, the second started only after the first
\* has ended and the gap has elapsed, and then the worker is idle with no
\* current process; a request seen superseded at a check point (before
\* playing, after spawning, after playing, in the polled gap) starts no
\* further playback.
C24_DoublePlay ==
    [][/\ Len(procs') > Len(procs)
          => /\ wpc = "spawn"
             /\ procs' = Append(procs, procs'[Len(procs')])
             /\ procs'[Len(procs')].token = wtoken
             /\ procs'[Len(procs')].file = requested[wtoken]
             /\ wi = 0 => ~\E k \in 1..Len(procs) : procs[k].token = wtoken
             /\ wi = 1 => /\ ~gapOpen
                          /\ Cardinality({k \in 1..Len(procs) :
                                             procs[k].token = wtoken}) = 1
                          /\ \A k \in 1..Len(procs) :
                                 procs[k].token = wtoken => ~procs[k].alive
       /\ (wpc = "final" /\ wpc' = "wait_req" /\ wtoken = PLAY_TOKEN)
          => /\ CURRENT_PROC' = None
             /\ Cardinality({k \in 1..Len(procs) : procs[k].token = wtoken}) = 2
             /\ \A k \in 1..Len(procs) : procs[k].token = wtoken => ~procs[k].alive
       /\ (/\ wpc \in {"check_before", "check_after_spawn", "check_after_play", "gap"}
           /\ wtoken # PLAY_TOKEN
           /\ wpc' # wpc)
          => /\ Len(procs') = Len(procs)
             /\ wpc' = IF wpc = "gap" THEN "check_before" ELSE "final"
       /\ (wpc' = "spawn" /\ wpc # "spawn")
          => wpc = "check_before" /\ wtoken = PLAY_TOKEN]_vars

\* C24 (amended): the same, for the requests whose player could be started:
\* when Popen raises, the worker abandons the request, which then has had
\* fewer than two playbacks.
C24_DoublePlayUnlessSpawnFails ==
    [][/\ Len(procs') > Len(procs)
          => /\ wpc = "spawn"
             /\ procs' = Append(procs, procs'[Len(procs')])
             /\ procs'[Len(procs')].token = wtoken
             /\ procs'[Len(procs')].file = requested[wtoken]
             /\ wi = 0 => ~\E k \in 1..Len(procs) : procs[k].token = wtoken
             /\ wi = 1 => /\ ~gapOpen
                          /\ Cardinality({k \in 1..Len(procs) :
                                             procs[k].token = wtoken}) = 1
                          /\ \A k \in 1..Len(procs) :
                                 procs[k].token = wtoken => ~procs[k].alive
       /\ (wpc = "final" /\ wpc' = "wait_req" /\ wtoken = PLAY_TOKEN)
          => /\ CURRENT_PROC' = None
             /\ \A k \in 1..Len(procs) : procs[k].token = wtoken => ~procs[k].alive
             /\ \/ wtoken \in spawnFailed
                \/ Cardinality({k \in 1..Len(procs) : procs[k].token = wtoken}) = 2
       /\ (/\ wpc \in {"check_before", "check_after_spawn", "check_after_play", "gap"}
           /\ wtoken # PLAY_TOKEN
           /\ wpc' # wpc)
          => /\ Len(procs') = Len(procs)
             /\ wpc' = IF wpc = "gap" THEN "check_before" ELSE "final"
       /\ (wpc' = "spawn" /\ wpc # "spawn")
          => wpc = "check_before" /\ wtoken = PLAY_TOKEN]_vars

\* C24 witness: the first request was cancelled after one playback, the second
\* has been played twice and the worker is idle
C24_Witness ==
    /\ PLAY_TOKEN = 2
    /\ wpc = "wait_req"
    /\ CURRENT_PROC = None
    /\ PENDING_REQ = NoReq
    /\ Cardinality({k \in 1..Len(procs) : procs[k].token = 1}) = 1
    /\ Cardinality({k \in 1..Len(procs) : procs[k].token = 2}) = 2
    /\ spawnFailed = {}


\* C25: at no time are two downloads of the same audio_id in progress, under
\* any interleaving of prefetch requests and audio play/file requests: no two
\* threads are between the cache miss and the end of ensure_mw_audio_cached
\* for the same id.
C25_NoDuplicateDownload ==
    \A d, e \in Downloaders :
        (/\ d # e
         /\ dl[d].pc \in {"fetch", "open", "write", "replace", "cleanup"}
         /\ dl[e].pc \in {"fetch", "open", "write", "replace", "cleanup"})
            => dl[d].aid # dl[e].aid

\* C26: downloads are atomic.  In every state <audio_id>.mp3 is absent or
\* holds a complete body, the path a successful call returns holds a complete
\* body, and an existing <audio_id>.mp3 comes from a download that succeeded.
C26_DownloadAtomic ==
    \A aid \in AudioIds :
        /\ audioFiles[aid].dst \in {"absent", "complete"}
        /\ \A d \in Downloaders :
              (dl[d].aid = aid /\ dl[d].pc = "returned" /\ dl[d].result # "failed")
                  => dl[d].result = "complete"
        /\ audioFiles[aid].dst # "absent"
              => \E d \in Downloaders : /\ dl[d].aid = aid
                                        /\ dl[d].pc \in {"done", "returned"}
                                        /\ dl[d].result # "failed"


\* C27: bookmarks self-heal on rename or move.  When list_marks_for_path(p)
\* finds no rows by the canonical path but finds rows by the fingerprint of the
\* file, it returns those marks and rewrites the path of all rows with that
\* fingerprint to p, so that the lookup by path then finds the same marks, and
\* the key (path, lnum, col, kind) is still unique.
C27_SelfHealOnRename ==
    [][(/\ lastMarks'.op = "list"
        /\ ListByPath(book_marks, lastMarks'.path) = {}
        /\ bookFiles[lastMarks'.path] # NoFile
        /\ ListByFingerprint(book_marks, bookFiles[lastMarks'.path]) # {})
       => /\ lastMarks'.error = ""
          /\ lastMarks'.marks = ListByFingerprint(book_marks, bookFiles[lastMarks'.path])
          /\ \A m \in book_marks' :
                m.fingerprint = bookFiles[lastMarks'.path] => m.path = lastMarks'.path
          /\ {m.id : m \in ListByPath(book_marks', lastMarks'.path)}
                = {m.id : m \in lastMarks'.marks}
          /\ UniqueMarkKey(book_marks')]_vars


\* C28: the hard pool.  When a pick finds no due card and no new entry, and a
\* non-suspended, non-excluded card of a non-ignored entry in the language set
\* exists (due or not), it returns mode "srs_hard" with one of the first
\* hard_random_top_n such cards in the order lapses descending, wrong_streak
\* descending, due_at ascending, last_review_at ascending.
C28_HardPoolReturnsHardCard ==
    LET langs == IF lastPick.src_filter # "" THEN {lastPick.src_filter}
                 ELSE {"EN", "DA"}
        cand  == {e \in lastPick.entriesBefore : e.ignore = 0 /\ e.src_lang \in langs}
        hard  == {c \in lastPick.cardsBefore :
                     /\ c.suspended = 0
                     /\ c.id \notin lastPick.exclude
                     /\ \E e \in cand : e.id = c.entry_id}
        due   == {c \in hard : ~TsLess(lastPick.now, ReadDue(c.due_at))}
        new   == {e \in cand : ~\E c \in lastPick.cardsBefore : c.entry_id = e.id}
        Harder(c, d) ==
            \/ c.lapses > d.lapses
            \/ c.lapses = d.lapses /\ c.wrong_streak > d.wrong_streak
            \/ /\ c.lapses = d.lapses /\ c.wrong_streak = d.wrong_streak
               /\ TsLess(ReadDue(c.due_at), ReadDue(d.due_at))
            \/ /\ c.lapses = d.lapses /\ c.wrong_streak = d.wrong_streak
               /\ ReadDue(c.due_at) = ReadDue(d.due_at)
               /\ TsLess(c.last_review_at, d.last_review_at)
    IN  (lastPick.called /\ due = {} /\ new = {} /\ hard # {}) =>
            /\ ~lastPick.raised
            /\ lastPick.item.mode = "srs_hard"
            /\ \E c \in hard :
                  /\ c.id = lastPick.item.card_id
                  /\ Cardinality({d \in hard : Harder(d, c)}) < HardRandomTopN

C30_PickReturnsEligible ==
    LET langs == IF lastPick.src_filter # "" THEN {lastPick.src_filter}
                 ELSE {"EN", "DA"}
    IN  (lastPick.called /\ ~lastPick.raised) =>
            /\ lastPick.item.mode \in {"srs_due", "srs_new", "srs_hard", "fallback"}
            /\ \E e \in entries :
                  /\ e.id = lastPick.item.entry_id
                  /\ e.ignore = 0
                  /\ e.src_lang \in langs
                  /\ e.src_lang = lastPick.item.src_lang
            /\ \E c \in cards :
                  /\ c.id = lastPick.item.card_id
                  /\ c.entry_id = lastPick.item.entry_id
                  /\ c.suspended = 0

\* C30 witness: an entry of the requested language has been marked ignored
\* and a later pick has returned another entry
C30_Witness ==
    /\ lastPick.called
    /\ ~lastPick.raised
    /\ \E e \in entries : /\ e.ignore = 1
                          /\ e.src_lang \in SrsLangs(lastPick.src_filter)
                          /\ e.id # lastPick.item.entry_id


\* C31: without src_filter the language set is EN and DA for every pool.  A
\* pick without filter that finds an eligible due DA card and no eligible due
\* EN card returns that language's card as srs_due; and one that finds no due
\* card, no EN entry without card but a DA entry without card, and goes for a
\* new entry (it returns srs_new or nothing else is left), returns a DA entry.
C31_NoFilterMeansEnAndDa ==
    LET Elig(lang) ==
            {c \in lastPick.cardsBefore :
                /\ c.suspended = 0
                /\ c.id \notin lastPick.exclude
                /\ ~TsLess(lastPick.now, ReadDue(c.due_at))
                /\ \E e \in lastPick.entriesBefore :
                       e.id = c.entry_id /\ e.ignore = 0 /\ e.src_lang = lang}
        New(lang) ==
            {e \in lastPick.entriesBefore :
                /\ e.ignore = 0
                /\ e.src_lang = lang
                /\ ~\E c \in lastPick.cardsBefore : c.entry_id = e.id}
        Hard(lang) ==
            {c \in lastPick.cardsBefore :
                /\ c.suspended = 0
                /\ c.id \notin lastPick.exclude
                /\ \E e \in lastPick.entriesBefore :
                       e.id = c.entry_id /\ e.ignore = 0 /\ e.src_lang = lang}
    IN  (lastPick.called /\ lastPick.src_filter = "") =>
            /\ (Elig("DA") # {} /\ Elig("EN") = {}) =>
                  /\ ~lastPick.raised
                  /\ lastPick.item.mode = "srs_due"
                  /\ lastPick.item.card_id \in {c.id : c \in Elig("DA")}
            /\ (/\ Elig("DA") = {} /\ Elig("EN") = {}
                /\ New("EN") = {} /\ Hard("EN") = {} /\ New("DA") # {}) =>
                  /\ ~lastPick.raised
                  /\ lastPick.item.mode = "srs_new"
                  /\ lastPick.item.entry_id \in {e.id : e \in New("DA")}


\* C32: a stored due_at above 10^10 is read as milliseconds.  Among the cards
\* a pick may consider (not suspended, not excluded, entry not ignored and in
\* the searched languages), one whose stored due_at is above 10^10 counts as
\* due exactly when due_at / 1000 <= now: when such a card is due in this
\* sense the pick returns a due card, the card returned as srs_due is due in
\* this sense, and the due_at of the returned row is the divided value.
\* (A pick that another writer overtook, and that failed for it, is left out.)
C32_LegacyMillisecondsNormalized ==
    LET Norm(t) == IF TsLess(MsThreshold, t) THEN TsDiv1000(t) ELSE t
        cand    == {c \in lastPick.cardsBefore :
                       /\ c.suspended = 0
                       /\ c.id \notin lastPick.exclude
                       /\ \E e \in lastPick.entriesBefore :
                              /\ e.id = c.entry_id
                              /\ e.ignore = 0
                              /\ e.src_lang \in SrsLangs(lastPick.src_filter)}
        legacy  == {c \in cand : TsLess(MsThreshold, c.due_at)}
    IN  (lastPick.called /\ lastPick.error # "OperationalError") =>
            /\ (\E c \in legacy : ~TsLess(lastPick.now, Norm(c.due_at))) =>
                   (~lastPick.raised /\ lastPick.item.mode = "srs_due")
            /\ (~lastPick.raised /\ lastPick.item.mode = "srs_due") =>
                   \E c \in cand :
                       /\ c.id = lastPick.item.card_id
                       /\ ~TsLess(lastPick.now, Norm(c.due_at))
                       /\ lastPick.item.due_at = Norm(c.due_at)


\* C33: the cache writes of one translate_word request become visible
\* together.  In no state does the cache show one part of them without the
\* rest: every base entry has its variant row, and once a context-mode miss
\* has stored its base entry, the context entry of the request is stored too.
C33_RequestWritesVisibleTogether ==
    /\ \A e \in entries :
          \E v \in entry_translations :
              /\ v.term = e.term
              /\ v.src_lang = e.src_lang
              /\ v.dst_lang = e.dst_lang
    /\ \A c \in Callers :
          (tw[c].provider /\ tw[c].ctx_text # NoText /\ tw[c].pc # "call") =>
              \E x \in entries_ctx :
                  /\ x.term = tw[c].word
                  /\ x.src_lang = tw[c].src
                  /\ x.dst_lang = tw[c].target
                  /\ x.ctx_hash = tw[c].h


C35_ContextHitTouchesMatchedRow ==
    [][/\ \A c \in Callers :
              (/\ tw[c].pc = "touch"
               /\ tw[c].ctx_text # NoText
               /\ tw'[c].pc # "touch")
              => \A x \in entries_ctx :
                     x.id = tw[c].row.id =>
                         \E y \in entries_ctx' :
                             /\ y.id = x.id
                             /\ y.count = x.count + 1
                             /\ y.last_used = tw[c].now
       /\ (/\ lastTranslate'.called
           /\ lastTranslate'.from_cache
           /\ lastTranslate'.cache_source = "context")
          => \A x \in entries_ctx' :
                 x.id = lastTranslate'.req.row.id => lastTranslate'.count = x.count
      ]_vars


\* C36: context eviction is least-recently-used.  An upsert_ctx_entry for
\* (term, src, dst, h) deletes only rows of that key with another ctx_hash;
\* it deletes as many as the key has rows above three once the upserted row
\* is counted; every row it deletes was used before every row of the key it
\* keeps beside the upserted one, by COALESCE(last_used, created_at) and then
\* by id; and it upserts the row of h.
C36_EvictionIsLeastRecentlyUsed ==
    [][lastCacheOp'.op = "upsert_ctx" =>
          LET op        == lastCacheOp'
              InKey(c)  == /\ c.term = op.term
                           /\ c.src_lang = op.src
                           /\ c.dst_lang = op.dst
              before    == {c \in entries_ctx : InKey(c)}
              after     == {c \in entries_ctx' : InKey(c)}
              had       == \E c \in before : c.ctx_hash = op.h
              total     == Cardinality(before) + (IF had THEN 0 ELSE 1)
              excess    == IF total > 3 THEN total - 3 ELSE 0
              deleted   == {c \in entries_ctx : ~\E d \in entries_ctx' : d.id = c.id}
              kept      == {c \in before : c.ctx_hash # op.h} \ deleted
              Usage(c)  == Coalesce(c.last_used, c.created_at)
          IN  /\ \A c \in deleted : InKey(c) /\ c.ctx_hash # op.h
              /\ Cardinality(deleted) = excess
              /\ \A c \in entries_ctx : ~InKey(c) => c \in entries_ctx'
              /\ \A c \in kept : c \in entries_ctx'
              /\ \A d \in deleted : \A k \in kept :
                     \/ Usage(d) < Usage(k)
                     \/ Usage(d) = Usage(k) /\ d.id < k.id
              /\ \E c \in after : c.ctx_hash = op.h
      ]_vars

\* C36 witness: a fourth context has just been upserted for the EN key, the
\* first context stored is still there because it was used again, and the
\* second was evicted; the row of the DA key is untouched
C36_Witness ==
    /\ lastCacheOp.op = "upsert_ctx"
    /\ lastCacheOp.src = "EN"
    /\ Cardinality({c \in entries_ctx : c.src_lang = "EN"}) = 3
    /\ \E c \in entries_ctx : c.src_lang = "EN" /\ c.id = 1 /\ c.count >= 2
    /\ \E c \in entries_ctx : c.src_lang = "EN" /\ c.ctx_hash = lastCacheOp.h
                                                 /\ c.count = 1
    /\ ~\E c \in entries_ctx : c.id = 2
    /\ \E c \in entries_ctx : c.src_lang = "DA" /\ c.id = 3


\* C37: the worker never spawns a player for a request after a newer request
\* has been published: in every step that starts a process, the token of the
\* request the worker is playing is the current token.
C37_SpawnOnlyWhileCurrent ==
    [][Len(procs') > Len(procs) => wtoken = PLAY_TOKEN]_vars

\* C37 (amended): the worker goes to spawn only from a check that found its
\* request's token current, and the process it starts is the request's; a
\* request published between that check and the spawn is noticed at the check
\* after the spawn, which stops the process just started and does not make it
\* the current process; and only a process of the current token's request is
\* ever made the current process.
C37_StaleSpawnStoppedAtOnce ==
    [][/\ (wpc' = "spawn" /\ wpc # "spawn") =>
              (wpc = "check_before" /\ wtoken = PLAY_TOKEN /\ wtoken' = wtoken)
       /\ Len(procs') > Len(procs) =>
              /\ wpc = "spawn"
              /\ Len(procs') = Len(procs) + 1
              /\ procs'[Len(procs')].token = wtoken
              /\ wpc' = "check_after_spawn"
              /\ wp' = Len(procs')
              /\ CURRENT_PROC' = CURRENT_PROC
       /\ (wpc = "check_after_spawn" /\ wpc' # wpc /\ wtoken # PLAY_TOKEN) =>
              /\ ~procs'[wp].alive
              /\ CURRENT_PROC' = CURRENT_PROC
              /\ wpc' = "final"
       /\ (CURRENT_PROC' # CURRENT_PROC /\ CURRENT_PROC' # None) =>
              procs[CURRENT_PROC'].token = PLAY_TOKEN
      ]_vars

\* C37 witness: the process the worker started for its request was stopped at
\* the check after the spawn, because a newer request had been published
C37_Witness ==
    /\ wpc = "final"
    /\ wp # None
    /\ wtoken # PLAY_TOKEN
    /\ procs[wp].token = wtoken
    /\ ~procs[wp].alive
    /\ procs[wp].end = "cancel"
    /\ CURRENT_PROC # wp


\* C38: a card that has just been reviewed is not due at the review time.
\* After a successful review_training_card at time now the card's stored
\* due_at is later than now, and so is the due_at the due query reads from
\* it: a pick at the same now does not find the card due.
C38_ReviewedCardNotDue ==
    lastReview.ok =>
        \A c \in cards :
            c.id = lastReview.card_id =>
                /\ TsLess(lastReview.now, c.due_at)
                /\ TsLess(lastReview.now, ReadDue(c.due_at))


\* C39: the card state stays consistent with the review log.  In every state
\* each card's lapses is the number of its review rows with grade < 3, and
\* its last_grade is the grade of its most recent review row (NULL when it
\* has none): a review's row and its card update are committed together or
\* not at all.
C39_CardMatchesReviewLog ==
    \A c \in cards :
        LET rows == {i \in 1..Len(reviews) : reviews[i].card_id = c.id}
        IN  /\ c.lapses = Cardinality({i \in rows : reviews[i].grade < 3})
            /\ rows = {} => c.last_grade = NoGrade
            /\ rows # {} =>
                   \E i \in rows : /\ \A j \in rows : j <= i
                                   /\ c.last_grade = reviews[i].grade

\* C39 witness: a card that failed a review has just passed one, beside a
\* card that was never reviewed
C39_Witness ==
    /\ lastReview.ok
    /\ lastReview.grade >= 3
    /\ \E c \in cards : /\ c.id = lastReview.card_id
                        /\ c.lapses >= 1
                        /\ c.last_grade = lastReview.grade
    /\ \E c \in cards : c.last_grade = NoGrade
    /\ Len(reviews) >= 2

====
